---- MODULE Spec2Model ----
(***************************************************************************)
(* A model of NvmeFileSystem (nvmefs.cpp, the version that owns a Device   *)
(* and a TemporaryFileMetadataManager): the superblock at LBA 0, the       *)
(* DATABASE / WAL / TEMPORARY regions, the two atomic write frontiers and  *)
(* the path-to-LBA translation.                                            *)
(*                                                                         *)
(* idx_t is a 64-bit unsigned integer in the source.  TLC's integers are   *)
(* 32 bits wide, so the model keeps the wrap-around of idx_t but at a      *)
(* width of 30 bits (WordMod): every idx_t operation of the source goes    *)
(* through Add, Sub or Mul.                                                *)
(***************************************************************************)
EXTENDS Integers, Sequences, FiniteSets, TLC

WordMod == 2^30

Add(a, b) == (a + b) % WordMod

Sub(a, b) == ((a - b) + WordMod) % WordMod

\* a * b for b a power of two that divides WordMod (b is always lba_size).
Mul(a, b) == (a % (WordMod \div b)) * b

Max(a, b) == IF a >= b THEN a ELSE b

Min(a, b) == IF a <= b THEN a ELSE b

(***************************************************************************)
(* Device geometry and NvmeConfig.  GeoSmall is a namespace in which the   *)
(* configured regions fit; GeoS1 is the 1 GiB namespace of the             *)
(* specification's scenarios; GeoTight is a namespace smaller than         *)
(* max_temp_size + max_wal_size, for which the subtraction that gives      *)
(* wal_start in InitializeMetadata wraps; GeoNarrow is a namespace whose   *)
(* temporary region holds one block and GeoTemp one whose temporary region *)
(* holds five.                                                             *)
(***************************************************************************)
GeoSmall == [lba_count |-> 11, lba_size |-> 2, max_temp_size |-> 6, max_wal_size |-> 4]

GeoS1 == [lba_count |-> 262144, lba_size |-> 4096, max_temp_size |-> 655360,
          max_wal_size |-> 33554432]

GeoTight == [lba_count |-> 6, lba_size |-> 2, max_temp_size |-> 6, max_wal_size |-> 4]

GeoTemp == [lba_count |-> 12, lba_size |-> 2, max_temp_size |-> 10, max_wal_size |-> 2]

GeoNarrow == [lba_count |-> 9, lba_size |-> 2, max_temp_size |-> 2, max_wal_size |-> 4]

Geometries == {GeoNarrow, GeoS1, GeoTight}

(***************************************************************************)
(* Paths.  A path is a sequence of tokens; StringUtil::Contains(path, s)   *)
(* is the presence of token s.  TokenLen gives the number of bytes of a    *)
(* token, so that a path has a length.                                     *)
(***************************************************************************)
DbPath == <<"nvmefs://", "test", ".db">>

WalPath == <<"nvmefs://", "test", ".db", ".wal">>

TmpPathA == <<"nvmefs://", "/tmp", "a">>

TmpPathB == <<"nvmefs://", "/tmp", "b">>

LongDbPath == <<"nvmefs://", "long", ".db">>

LongWalPath == <<"nvmefs://", "long", ".db", ".wal">>

LongTmpPath == <<"nvmefs://", "/tmp", "long">>

LongPaths == {LongDbPath, LongWalPath, LongTmpPath}

InvalidPath == <<"nvmefs://", "test">>

TmpPaths == {TmpPathA, TmpPathB, LongTmpPath}

Paths == {DbPath, WalPath, TmpPathA, TmpPathB, LongDbPath, InvalidPath}

TokenLen(tok) ==
    CASE tok = "nvmefs://" -> 9
      [] tok = "long" -> 95
      [] tok = ".wal" -> 4
      [] tok = "/tmp" -> 4
      [] tok = ".db" -> 3
      [] tok = "test" -> 4
      [] OTHER -> 1

RECURSIVE PathLength(_)
PathLength(path) ==
    IF path = <<>> THEN 0 ELSE TokenLen(Head(path)) + PathLength(Tail(path))

Contains(path, tok) == \E i \in 1..Len(path) : path[i] = tok

GetMetadataTypeAllDb(filename) == "DATABASE"

\* NvmeFileSystem::GetMetadataType; "INVALID" stands for the
\* InvalidInputException("Unknown file format") it throws.
GetMetadataType(filename) ==
    IF Contains(filename, ".wal") THEN "WAL"
    ELSE IF Contains(filename, "/tmp") THEN "TEMPORARY"
    ELSE IF Contains(filename, ".db") THEN "DATABASE"
    ELSE "INVALID"

CalculateWholeLBACount(nr_bytes, lba_size) == nr_bytes \div lba_size

\* NvmeFileHandle::CalculateRequiredLBACount
CalculateRequiredLBACount(nr_bytes, lba_size) ==
    Sub(Add(nr_bytes, lba_size), 1) \div lba_size

(***************************************************************************)
(* The temporary block manager and the temporary file metadata manager.    *)
(* Their source files are not among the repository's files at hand; they   *)
(* are modelled from sections 4.C and 4.D of the specification.            *)
(***************************************************************************)
InitialBlocks == 1

NoFile == [active |-> FALSE, start |-> 0, end |-> 0, frontier |-> 0]

NoManager == [present |-> FALSE, free |-> <<>>, files |-> [n \in TmpPaths |-> NoFile]]

\* TemporaryFileMetadataManager(start_lba, end_lba, lba_size)
NewManager(start_lba, end_lba) ==
    [present |-> TRUE,
     free |-> IF start_lba < end_lba THEN << <<start_lba, end_lba>> >> ELSE <<>>,
     files |-> [n \in TmpPaths |-> NoFile]]

\* Last-fit: the free range of the highest start that holds nr_blocks blocks.
LastFit(free, nr_blocks) ==
    LET fits == {i \in 1..Len(free) : free[i][2] - free[i][1] >= nr_blocks}
    IN IF fits = {} THEN 0 ELSE CHOOSE i \in fits : \A j \in fits : i >= j

\* Index of the first free range that holds nr_blocks blocks, 0 if none.
FirstFit(free, nr_blocks) ==
    LET fits == {i \in 1..Len(free) : free[i][2] - free[i][1] >= nr_blocks}
    IN IF fits = {} THEN 0 ELSE CHOOSE i \in fits : \A j \in fits : i <= j

\* An allocate that hands out blocks and leaves them on the free list.
TakeNothing(free, i, nr_blocks) == free

\* The free list after allocate(nr_blocks) took the low end of range i.
TakeFrom(free, i, nr_blocks) ==
    IF free[i][2] - free[i][1] = nr_blocks
    THEN SubSeq(free, 1, i - 1) \o SubSeq(free, i + 1, Len(free))
    ELSE [free EXCEPT ![i] = <<free[i][1] + nr_blocks, free[i][2]>>]

CoalesceNothing(free) == free

RECURSIVE Coalesce(_)
Coalesce(free) ==
    IF Len(free) < 2 THEN free
    ELSE IF free[1][2] = free[2][1]
         THEN Coalesce(<< <<free[1][1], free[2][2]>> >> \o SubSeq(free, 3, Len(free)))
         ELSE <<free[1]>> \o Coalesce(Tail(free))

\* free(range): insert in order of start, merge with touching neighbours.
FreeRange(free, range) ==
    IF range[1] >= range[2] THEN free
    ELSE LET k == Cardinality({i \in 1..Len(free) : free[i][1] < range[1]})
         IN Coalesce(SubSeq(free, 1, k) \o <<range>> \o SubSeq(free, k + 1, Len(free)))

RECURSIVE SumFree(_)
SumFree(free) ==
    IF free = <<>> THEN 0 ELSE (Head(free)[2] - Head(free)[1]) + SumFree(Tail(free))

\* CreateFile(name): a known name is a reopen; a new one gets InitialBlocks.
\* The result is [ok, mgr].
TmpCreateFile(mgr, name) ==
    IF mgr.files[name].active THEN [ok |-> TRUE, mgr |-> mgr]
    ELSE LET i == FirstFit(mgr.free, InitialBlocks)
         IN IF i = 0 THEN [ok |-> FALSE, mgr |-> mgr]
            ELSE LET s == mgr.free[i][1]
                 IN [ok |-> TRUE,
                     mgr |-> [mgr EXCEPT
                                !.free = TakeFrom(mgr.free, i, InitialBlocks),
                                !.files[name] = [active |-> TRUE, start |-> s,
                                                 end |-> s + InitialBlocks,
                                                 frontier |-> s]]]

\* GetLBA(name, byte_offset, nr_lbas): the result is [res, lba, mgr] with res
\* "ok", "NotFound" or "NoSpace".  A file too small for the request moves
\* to a new, larger range; its old range is freed and not copied.
TmpGetLBA(mgr, name, location, nr_lbas, lba_size) ==
    LET f == mgr.files[name]
        blk == location \div lba_size
        need == blk + nr_lbas
        cur == f.end - f.start
        want == Max(need, 2 * cur)
        i == FirstFit(mgr.free, want)
        s == mgr.free[i][1]
    IN IF ~f.active THEN [res |-> "NotFound", lba |-> 0, mgr |-> mgr]
       ELSE IF f.start + need <= f.end
            THEN [res |-> "ok", lba |-> f.start + blk, mgr |-> mgr]
       ELSE IF i = 0 THEN [res |-> "NoSpace", lba |-> 0, mgr |-> mgr]
       ELSE [res |-> "ok", lba |-> s + blk,
             mgr |-> [mgr EXCEPT
                        !.free = FreeRange(TakeFrom(mgr.free, i, want),
                                           <<f.start, f.end>>),
                        !.files[name] = [active |-> TRUE, start |-> s,
                                         end |-> s + want,
                                         frontier |-> s + (f.frontier - f.start)]]]

\* MoveLBALocation(name, lba): the file's frontier only moves up.
TmpMoveLBALocation(mgr, name, lba) ==
    IF mgr.files[name].active /\ lba > mgr.files[name].frontier
    THEN [mgr EXCEPT !.files[name].frontier = lba]
    ELSE mgr

\* GetFileSizeLBA(name): the blocks of the file's range.
TmpGetFileSizeLBA(mgr, name) == mgr.files[name].end - mgr.files[name].start

\* TruncateFile(name, new_size) for new_size within the file.
TmpTruncateFile(mgr, name, new_size, lba_size) ==
    LET f == mgr.files[name]
        nr == CalculateRequiredLBACount(new_size, lba_size)
    IN IF new_size = 0
       THEN [mgr EXCEPT !.free = FreeRange(mgr.free, <<f.start, f.end>>),
                        !.files[name] = NoFile]
       ELSE [mgr EXCEPT !.free = FreeRange(mgr.free, <<f.start + nr, f.end>>),
                        !.files[name] = [f EXCEPT !.end = f.start + nr,
                                                  !.frontier = Min(f.frontier, f.start + nr)]]

\* A DeleteFile that drops the entry and keeps its blocks allocated.
TmpDropEntry(mgr, name) == [mgr EXCEPT !.files[name] = NoFile]

\* DeleteFile(name): idempotent.
TmpDeleteFile(mgr, name) ==
    LET f == mgr.files[name]
    IN IF ~f.active THEN mgr
       ELSE [mgr EXCEPT !.free = FreeRange(mgr.free, <<f.start, f.end>>),
                        !.files[name] = NoFile]


\* Clear(): the map is emptied and the block manager reset to the single
\* range [start_lba, end_lba) it was constructed with.
TmpClear(mgr, start_lba, end_lba) == NewManager(start_lba, end_lba)

(***************************************************************************)
(* State.                                                                  *)
(*   cfg          device geometry and NvmeConfig of the instance           *)
(*   metadata     unique_ptr<GlobalMetadata> metadata (present = non-null) *)
(*   db_location  std::atomic<idx_t> db_location                           *)
(*   wal_location std::atomic<idx_t> wal_location                          *)
(*   tmp          temp_meta_manager                                        *)
(*   lba0         the buffer LBA 0 of the device holds                     *)
(*   handle       the NvmeFileHandle the caller holds: its path and cursor *)
(*   last         the outcome of the last call and its device command      *)
(*   th           the threads of the concurrent specifications             *)
(***************************************************************************)
VARIABLES cfg, metadata, db_location, wal_location, tmp, lba0, handle,
          last, th

vars == <<cfg, metadata, db_location, wal_location, tmp, lba0, handle,
          last, th>>

fsvars == <<metadata, db_location, wal_location, tmp>>

NoMeta == [present |-> FALSE, db_start |-> 0, wal_start |-> 0, tmp_start |-> 0,
           db_location |-> 0, wal_location |-> 0, db_path_size |-> 0, db_path |-> <<>>]

NoHandle == [open |-> FALSE, path |-> <<>>, cursor |-> 0]

NoCmd == [dev |-> "none", start_lba |-> 0, nr_lbas |-> 0, offset |-> 0]

\* What the caller passed: a byte count (or new size) and a byte location.
NoReq == [nr_bytes |-> 0, location |-> 0]

\* ret of a call that returns no value, or that threw.
NoRet == -1

Outcome(op, path, res, cmd) ==
    [op |-> op, path |-> path, res |-> res, cmd |-> cmd, req |-> NoReq,
     ret |-> NoRet]

Request(outcome, nr_bytes, location) ==
    [outcome EXCEPT !.req = [nr_bytes |-> nr_bytes, location |-> location]]

\* The int64_t the cursor-relative Read and Write return: they call the
\* positional overload at location 0 and, if it did not throw, return nr_bytes.
ReturnedLbaBytes(outcome) == outcome.cmd.nr_lbas * cfg.lba_size

Returned(outcome) == outcome.req.nr_bytes

Conclude(outcome) ==
    IF outcome.op \in {"ReadAtCursor", "WriteAtCursor"} /\ outcome.res = "ok"
    THEN [outcome EXCEPT !.ret = Returned(outcome)]
    ELSE outcome

\* The caller holds a handle on path.
Holds(path) == handle.open /\ handle.path = path

LbaSize == cfg.lba_size

LastLba == Sub(cfg.lba_count, 1)

(***************************************************************************)
(* The superblock buffer.  WriteMetadata copies the magic bytes and then   *)
(* the GlobalMetadata struct into the buffer it writes to LBA 0;           *)
(* ReadMetadata compares the magic bytes and copies the struct out again.  *)
(* The buffer is the magic, the six idx_t fields in the order of the       *)
(* struct, and the db_path array: the path followed by its NUL bytes.      *)
(***************************************************************************)
Magic == "NVMEFS"

DbPathCapacity == 101

\* A namespace that was never written.
Blank == <<>>

\* memcpy(buffer, NVMEFS_MAGIC_BYTES, ..); memcpy(buffer + .., &global, ..)
Encode(global) ==
    <<Magic, global.db_start, global.wal_start, global.tmp_start,
      global.db_location, global.wal_location, global.db_path_size>>
    \o global.db_path
    \o <<[nul |-> DbPathCapacity - PathLength(global.db_path)]>>

\* A decoder that takes the magic to be one field shorter than it is.
DecodeShortMagic(buffer) ==
    IF Len(buffer) < 8 \/ buffer[1] # Magic THEN NoMeta
    ELSE [present |-> TRUE, db_start |-> buffer[2], wal_start |-> buffer[2],
          tmp_start |-> buffer[3], db_location |-> buffer[4],
          wal_location |-> buffer[5], db_path_size |-> buffer[6],
          db_path |-> SubSeq(buffer, 8, Len(buffer) - 1)]

\* memcmp(buffer, NVMEFS_MAGIC_BYTES, ..) == 0, then
\* memcpy(global.get(), buffer + nr_bytes_magic, ..); NoMeta is nullptr.
Decode(buffer) ==
    IF Len(buffer) < 8 \/ buffer[1] # Magic THEN NoMeta
    ELSE [present |-> TRUE, db_start |-> buffer[2], wal_start |-> buffer[3],
          tmp_start |-> buffer[4], db_location |-> buffer[5],
          wal_location |-> buffer[6], db_path_size |-> buffer[7],
          db_path |-> SubSeq(buffer, 8, Len(buffer) - 1)]

\* ReadMetadata(): the record LBA 0 decodes to.
ReadMetadata == Decode(lba0)

\* The superblock on the device, as ReadMetadata sees it (present = the
\* magic bytes are there).
disk_sb == ReadMetadata

(***************************************************************************)
(* Metadata: TryLoadMetadata / InitializeMetadata / WriteMetadata.         *)
(***************************************************************************)

WriteMetadataStale(global, db_loc, wal_loc) == [global EXCEPT !.present = TRUE]

\* WriteMetadata(global): the record with the atomics copied into it; its
\* encoding is what the device write puts at LBA 0.
WriteMetadata(global, db_loc, wal_loc) ==
    [global EXCEPT !.present = TRUE, !.db_location = db_loc, !.wal_location = wal_loc]

InitTmpStartNoGap(geo) == Sub(geo.lba_count, geo.max_temp_size \div geo.lba_size)

\* The layout InitializeMetadata computes.
InitTmpStart(geo) == Sub(Sub(geo.lba_count, 1), geo.max_temp_size \div geo.lba_size)

InitWalStart(geo) == Sub(Sub(InitTmpStart(geo), 1), geo.max_wal_size \div geo.lba_size)

\* The GlobalMetadata InitializeMetadata fills in before it calls WriteMetadata.
InitGlobal(geo, filename) ==
    [present |-> TRUE, db_start |-> 1, wal_start |-> InitWalStart(geo),
     tmp_start |-> InitTmpStart(geo), db_location |-> 1,
     wal_location |-> InitWalStart(geo), db_path_size |-> PathLength(filename),
     db_path |-> filename]

\* InitializeMetadata(filename): [ok, metadata, db_location, wal_location, tmp,
\* lba0].  WriteMetadata runs before the two atomics are stored, so the
\* record it persists (and leaves in *global) carries the atomics' old values.
InitializeMetadata(filename) ==
    IF PathLength(filename) > 100
    THEN [ok |-> FALSE, metadata |-> metadata, db_location |-> db_location,
          wal_location |-> wal_location, tmp |-> tmp, lba0 |-> lba0]
    ELSE LET global == WriteMetadata(InitGlobal(cfg, filename), db_location, wal_location)
         IN [ok |-> TRUE, metadata |-> global, db_location |-> 1,
             wal_location |-> InitWalStart(cfg),
             tmp |-> NewManager(InitTmpStart(cfg), LastLba),
             lba0 |-> Encode(global)]

\* A load that takes whatever LBA 0 holds for a superblock.
TryLoadMetadataUnchecked ==
    [ok |-> TRUE, metadata |-> [disk_sb EXCEPT !.present = TRUE],
     db_location |-> disk_sb.db_location, wal_location |-> disk_sb.wal_location,
     tmp |-> NewManager(disk_sb.tmp_start, LastLba)]

TryLoadMetadataNever ==
    [ok |-> FALSE, metadata |-> metadata, db_location |-> db_location,
     wal_location |-> wal_location, tmp |-> tmp]

TryLoadMetadataNoRead ==
    [ok |-> metadata.present, metadata |-> metadata, db_location |-> db_location,
     wal_location |-> wal_location, tmp |-> tmp]

\* TryLoadMetadata(): [ok, metadata, db_location, wal_location, tmp].
TryLoadMetadata ==
    IF metadata.present
    THEN [ok |-> TRUE, metadata |-> metadata, db_location |-> db_location,
          wal_location |-> wal_location, tmp |-> tmp]
    ELSE IF disk_sb.present
    THEN [ok |-> TRUE, metadata |-> disk_sb, db_location |-> disk_sb.db_location,
          wal_location |-> disk_sb.wal_location,
          tmp |-> NewManager(disk_sb.tmp_start, LastLba)]
    ELSE [ok |-> FALSE, metadata |-> metadata, db_location |-> db_location,
          wal_location |-> wal_location, tmp |-> tmp]

(***************************************************************************)
(* OpenFile(path, flags).  create is flags.CreateFileIfNotExists().        *)
(***************************************************************************)
OpenFile(path, create) ==
    LET ld == TryLoadMetadata
        type == GetMetadataType(path)
        fail(res) == /\ last' = Outcome("OpenFile", path, res, NoCmd)
                     /\ UNCHANGED <<cfg, metadata, db_location, wal_location, tmp,
                                    lba0, handle, th>>
        \* the part of OpenFile after metadata is there
        finish(md, dbl, wll, mgr, sb) ==
            LET cr == IF create /\ type = "TEMPORARY"
                      THEN TmpCreateFile(mgr, path)
                      ELSE [ok |-> TRUE, mgr |-> mgr]
            IN /\ metadata' = md
               /\ db_location' = dbl
               /\ wal_location' = wll
               /\ lba0' = sb
               /\ tmp' = cr.mgr
               /\ IF create /\ type = "INVALID"
                  THEN /\ handle' = handle
                       /\ last' = Outcome("OpenFile", path, "InvalidInput", NoCmd)
                  ELSE IF ~cr.ok
                  THEN /\ handle' = handle
                       /\ last' = Outcome("OpenFile", path, "NoSpace", NoCmd)
                  ELSE /\ handle' = [open |-> TRUE, path |-> path, cursor |-> 0]
                       /\ last' = Outcome("OpenFile", path, "ok", NoCmd)
               /\ UNCHANGED <<cfg, th>>
    IN IF ld.ok
       THEN finish(ld.metadata, ld.db_location, ld.wal_location, ld.tmp, lba0)
       ELSE IF type = "INVALID" THEN fail("InvalidInput")
       ELSE IF type # "DATABASE" THEN fail("NoDatabase")
       ELSE LET im == InitializeMetadata(path)
            IN IF ~im.ok THEN fail("TooLong")
               ELSE finish(im.metadata, im.db_location, im.wal_location, im.tmp,
                           im.lba0)


(***************************************************************************)
(* Translation and bounds: GetLBA, IsLBAInRange, GetFileSize.              *)
(***************************************************************************)
RegionStart(type) ==
    CASE type = "WAL" -> metadata.wal_start
      [] type = "TEMPORARY" -> metadata.tmp_start
      [] OTHER -> metadata.db_start

\* current_end of IsLBAInRange
RegionLast(type) ==
    CASE type = "WAL" -> Sub(metadata.tmp_start, 1)
      [] type = "TEMPORARY" -> Sub(cfg.lba_count, 1)
      [] OTHER -> Sub(metadata.wal_start, 1)

IsLBAInRangeOff(type, start_lba, lba_count) == TRUE

IsLBAInRange(type, start_lba, lba_count) ==
    /\ ~(start_lba < RegionStart(type) \/ start_lba > RegionLast(type))
    /\ ~(Add(start_lba, lba_count) > RegionLast(type))

\* GetLBA(filename, nr_bytes, location, nr_lbas): [res, lba, mgr]
GetLBA(filename, location, nr_lbas) ==
    LET type == GetMetadataType(filename)
    IN CASE type = "WAL" ->
              [res |-> "ok", lba |-> Add(metadata.wal_start, location \div LbaSize),
               mgr |-> tmp]
         [] type = "DATABASE" ->
              [res |-> "ok", lba |-> Add(metadata.db_start, location \div LbaSize),
               mgr |-> tmp]
         [] type = "TEMPORARY" -> TmpGetLBA(tmp, filename, location, nr_lbas, LbaSize)
         [] OTHER -> [res |-> "InvalidInput", lba |-> 0, mgr |-> tmp]

TranslateNoCursor(filename, nr_bytes, location, cursor) ==
    LET nr_lbas == CalculateRequiredLBACount(nr_bytes, LbaSize)
        g == GetLBA(filename, location, nr_lbas)
        cmd == [dev |-> "none", start_lba |-> g.lba, nr_lbas |-> nr_lbas,
                offset |-> location % LbaSize]
    IN IF g.res # "ok"
       THEN [res |-> g.res, cmd |-> NoCmd, mgr |-> g.mgr]
       ELSE IF ~IsLBAInRange(GetMetadataType(filename), g.lba, nr_lbas)
       THEN [res |-> "OutOfRange", cmd |-> cmd, mgr |-> g.mgr]
       ELSE [res |-> "ok", cmd |-> cmd, mgr |-> g.mgr]

\* The part of Read and Write before the device call: [res, cmd, mgr].
\* cursor is SeekPosition(handle).
Translate(filename, nr_bytes, location, cursor) ==
    LET loc == Add(location, cursor)
        nr_lbas == CalculateRequiredLBACount(nr_bytes, LbaSize)
        g == GetLBA(filename, loc, nr_lbas)
        cmd == [dev |-> "none", start_lba |-> g.lba, nr_lbas |-> nr_lbas,
                offset |-> loc % LbaSize]
    IN IF g.res # "ok"
       THEN [res |-> g.res, cmd |-> NoCmd, mgr |-> g.mgr]
       ELSE IF ~IsLBAInRange(GetMetadataType(filename), g.lba, nr_lbas)
       THEN [res |-> "OutOfRange", cmd |-> cmd, mgr |-> g.mgr]
       ELSE [res |-> "ok", cmd |-> cmd, mgr |-> g.mgr]

ToSigned(x) == IF x >= WordMod \div 2 THEN x - WordMod ELSE x

\* A size no new_size exceeds.
GetFileSizeUnbounded(filename) == (WordMod \div 2) - 1

\* GetFileSize(handle) as the int64_t it returns; the file is known.
GetFileSize(filename) ==
    LET type == GetMetadataType(filename)
        nr_lbas == CASE type = "DATABASE" -> Sub(db_location, metadata.db_start)
                     [] type = "WAL" -> Sub(wal_location, metadata.wal_start)
                     [] OTHER -> TmpGetFileSizeLBA(tmp, filename)
    IN ToSigned(Mul(nr_lbas, LbaSize))

(***************************************************************************)
(* The device (Device::Write, Device::Read): modelled from section 4.A of  *)
(* the specification.  A command either fails with an I/O error, leaving   *)
(* the medium as it was, or transfers the command's LBAs.  A command that  *)
(* leaves the namespace fails.                                             *)
(***************************************************************************)
DeviceAccepts(cmd) == cmd.start_lba + cmd.nr_lbas <= cfg.lba_count

(***************************************************************************)
(* UpdateMetadata.  Surpassed is the break test of its compare-and-swap    *)
(* loop.  UpdateFrontier is the loop run without interference: the         *)
(* frontier is left alone when new_location is below it and set to         *)
(* new_location otherwise.                                                 *)
(***************************************************************************)
SurpassedNever(new_location, expected_location) == FALSE

Surpassed(new_location, expected_location) == new_location < expected_location

UpdateFrontier(expected_location, new_location) ==
    IF Surpassed(new_location, expected_location) THEN expected_location
    ELSE new_location

\* The last two statements of Write: UpdateMetadata runs when device->Write
\* has returned; a device error leaves Write before it.
FrontierIgnoringResult(written, frontier, new_location) ==
    UpdateFrontier(frontier, new_location)

FrontierAfterWrite(written, frontier, new_location) ==
    IF written THEN UpdateFrontier(frontier, new_location) ELSE frontier

(***************************************************************************)
(* Write(handle, buffer, nr_bytes, location), one caller at a time.        *)
(* dev_ok is whether the device write succeeds.                            *)
(***************************************************************************)
WriteAs(op, path, nr_bytes, location, dev_ok) ==
    LET t == Translate(path, nr_bytes, location, handle.cursor)
        type == GetMetadataType(path)
        wcmd == [t.cmd EXCEPT !.dev = "write"]
        new_location == Add(t.cmd.start_lba, t.cmd.nr_lbas)
        written == dev_ok /\ DeviceAccepts(t.cmd)
    IN /\ Holds(path)
       /\ IF t.res # "ok"
          THEN /\ tmp' = t.mgr
               /\ last' = Conclude(Request(Outcome(op, path, t.res, t.cmd),
                                            nr_bytes, location))
               /\ UNCHANGED <<db_location, wal_location>>
          ELSE /\ last' = Conclude(Request(Outcome(op, path,
                                                   IF written THEN "ok"
                                                   ELSE "DeviceError",
                                                   wcmd),
                                           nr_bytes, location))
               /\ db_location' = IF type = "DATABASE"
                                 THEN FrontierAfterWrite(written, db_location,
                                                         new_location)
                                 ELSE db_location
               /\ wal_location' = IF type = "WAL"
                                  THEN FrontierAfterWrite(written, wal_location,
                                                          new_location)
                                  ELSE wal_location
               /\ tmp' = IF type = "TEMPORARY" /\ written
                         THEN TmpMoveLBALocation(t.mgr, path, new_location)
                         ELSE t.mgr
       /\ UNCHANGED <<cfg, metadata, lba0, handle, th>>

Write(path, nr_bytes, location, dev_ok) == WriteAs("Write", path, nr_bytes, location, dev_ok)

\* Trim(handle, offset_bytes, length_bytes): a Write of zeros.
Trim(path, offset_bytes, length_bytes, dev_ok) ==
    WriteAs("Trim", path, length_bytes, offset_bytes, dev_ok)

(***************************************************************************)
(* Read(handle, buffer, nr_bytes, location).                               *)
(***************************************************************************)
\* A read that goes down the write path.
ReadAsWrite(op, path, nr_bytes, location, dev_ok) ==
    WriteAs(op, path, nr_bytes, location, dev_ok)

ReadAs(op, path, nr_bytes, location, dev_ok) ==
    LET t == Translate(path, nr_bytes, location, handle.cursor)
        rcmd == [t.cmd EXCEPT !.dev = "read"]
    IN /\ Holds(path)
       /\ tmp' = t.mgr
       /\ last' = Conclude(Request(
                      IF t.res # "ok" THEN Outcome(op, path, t.res, t.cmd)
                      ELSE IF ~(dev_ok /\ DeviceAccepts(t.cmd))
                      THEN Outcome(op, path, "DeviceError", rcmd)
                      ELSE Outcome(op, path, "ok", rcmd),
                      nr_bytes, location))
       /\ UNCHANGED <<cfg, metadata, db_location, wal_location, lba0, handle, th>>

Read(path, nr_bytes, location, dev_ok) ==
    ReadAs("Read", path, nr_bytes, location, dev_ok)

(***************************************************************************)
(* Read(handle, buffer, nr_bytes) and Write(handle, buffer, nr_bytes): the *)
(* overloads without a location.                                           *)
(***************************************************************************)
ReadAtCursor(path, nr_bytes, dev_ok) ==
    ReadAs("ReadAtCursor", path, nr_bytes, 0, dev_ok)

WriteAtCursor(path, nr_bytes, dev_ok) ==
    WriteAs("WriteAtCursor", path, nr_bytes, 0, dev_ok)


(***************************************************************************)
(* Seek(handle, location).                                                 *)
(***************************************************************************)
MaxSeekBound(path) ==
    LET type == GetMetadataType(path)
    IN CASE type = "WAL" ->
              Mul(Sub(Sub(metadata.tmp_start, 1), metadata.wal_start), LbaSize)
         [] type = "DATABASE" ->
              Mul(Sub(Sub(metadata.wal_start, 1), metadata.db_start), LbaSize)
         [] OTHER -> Mul(TmpGetFileSizeLBA(tmp, path), LbaSize)

SeekMovingFirst(path, location) ==
    LET type == GetMetadataType(path)
        res == IF type = "INVALID" THEN "InvalidInput"
               ELSE IF type = "TEMPORARY" /\ ~tmp.files[path].active THEN "NotFound"
               ELSE IF location >= MaxSeekBound(path) THEN "OutOfRange"
               ELSE "ok"
    IN /\ Holds(path)
       /\ handle' = [handle EXCEPT !.cursor = location]
       /\ last' = Request(Outcome("Seek", path, res, NoCmd), 0, location)
       /\ UNCHANGED <<cfg, metadata, db_location, wal_location, tmp, lba0, th>>

Seek(path, location) ==
    LET type == GetMetadataType(path)
        res == IF type = "INVALID" THEN "InvalidInput"
               ELSE IF type = "TEMPORARY" /\ ~tmp.files[path].active THEN "NotFound"
               ELSE IF location >= MaxSeekBound(path) THEN "OutOfRange"
               ELSE "ok"
    IN /\ Holds(path)
       /\ handle' = IF res = "ok" THEN [handle EXCEPT !.cursor = location]
                    ELSE handle
       /\ last' = Request(Outcome("Seek", path, res, NoCmd), 0, location)
       /\ UNCHANGED <<cfg, metadata, db_location, wal_location, tmp, lba0, th>>

(***************************************************************************)
(* Truncate(handle, new_size), one caller at a time: the compare-and-swap  *)
(* loop ends with the frontier at new_location.                            *)
(***************************************************************************)
Truncate(path, new_size) ==
    LET type == GetMetadataType(path)
        new_lba_location == CalculateRequiredLBACount(new_size, LbaSize)
        res == IF type = "INVALID" THEN "InvalidInput"
               ELSE IF type = "TEMPORARY" /\ ~tmp.files[path].active THEN "NotFound"
               ELSE IF new_size <= GetFileSize(path) THEN "ok"
               ELSE "TooBig"
    IN /\ Holds(path)
       /\ wal_location' = IF res = "ok" /\ type = "WAL"
                          THEN Add(metadata.wal_start, new_lba_location)
                          ELSE wal_location
       /\ db_location' = IF res = "ok" /\ type = "DATABASE"
                         THEN Add(metadata.db_start, new_lba_location)
                         ELSE db_location
       /\ tmp' = IF res = "ok" /\ type = "TEMPORARY"
                 THEN TmpTruncateFile(tmp, path, new_size, LbaSize)
                 ELSE tmp
       /\ last' = Request(Outcome("Truncate", path, res, NoCmd), new_size, 0)
       /\ UNCHANGED <<cfg, metadata, lba0, handle, th>>

(***************************************************************************)
(* RemoveFile(filename).  Without metadata the WAL and TEMPORARY cases     *)
(* dereference a null unique_ptr, which duckdb reports as an internal      *)
(* error.                                                                  *)
(***************************************************************************)
RemoveFileOfTemporaryOnly(filename) ==
    LET type == GetMetadataType(filename)
        res == IF type = "INVALID" THEN "InvalidInput"
               ELSE IF type = "WAL" /\ ~metadata.present THEN "InternalError"
               ELSE IF type = "TEMPORARY" /\ ~tmp.present THEN "InternalError"
               ELSE "ok"
    IN /\ tmp' = IF res = "ok" /\ type = "TEMPORARY" THEN TmpDeleteFile(tmp, filename)
                 ELSE tmp
       /\ last' = Outcome("RemoveFile", filename, res, NoCmd)
       /\ UNCHANGED <<cfg, metadata, db_location, wal_location, lba0, handle, th>>

RemoveFile(filename) ==
    LET type == GetMetadataType(filename)
        res == IF type = "INVALID" THEN "InvalidInput"
               ELSE IF type = "WAL" /\ ~metadata.present THEN "InternalError"
               ELSE IF type = "TEMPORARY" /\ ~tmp.present THEN "InternalError"
               ELSE "ok"
    IN /\ wal_location' = IF res = "ok" /\ type = "WAL" THEN metadata.wal_start
                          ELSE wal_location
       /\ tmp' = IF res = "ok" /\ type = "TEMPORARY" THEN TmpDeleteFile(tmp, filename)
                 ELSE tmp
       /\ last' = Outcome("RemoveFile", filename, res, NoCmd)
       /\ UNCHANGED <<cfg, metadata, db_location, lba0, handle, th>>

(***************************************************************************)
(* FileExists(filename).  StringUtil::GetFileStem is the library's: the    *)
(* file name is what follows the last separator, and its stem is the name  *)
(* without its last extension; a name that begins with a dot is its own    *)
(* stem.  The pieces "nvmefs://" and "/tmp" end a directory.               *)
(***************************************************************************)
IsSeparator(tok) == tok \in {"nvmefs://", "/tmp"}

IsExtension(tok) == tok \in {".db", ".wal"}

GetFileName(path) ==
    LET seps == {i \in 1..Len(path) : IsSeparator(path[i])}
        from == IF seps = {} THEN 1
                ELSE (CHOOSE i \in seps : \A j \in seps : j <= i) + 1
    IN SubSeq(path, from, Len(path))

GetFileStem(path) ==
    LET name == GetFileName(path)
    IN IF name = <<>> \/ IsExtension(name[1]) THEN name
       ELSE IF IsExtension(name[Len(name)]) THEN SubSeq(name, 1, Len(name) - 1)
       ELSE name

\* The bool of a call that returns one.
Answer(outcome, value) == [outcome EXCEPT !.ret = value]

\* exists in the WAL case of FileExists
WalExists(ld, path_no_ext, db_path_no_ext) ==
    GetFileStem(path_no_ext) = db_path_no_ext

\* exists in the DATABASE case of FileExists, the stems being equal
DbExists(ld) == Sub(ld.db_location, ld.metadata.db_start) > 0

FileExists(filename) ==
    LET ld == TryLoadMetadata
        type == GetMetadataType(filename)
        path_no_ext == GetFileStem(filename)
        db_path_no_ext == GetFileStem(ld.metadata.db_path)
        out(res) == Outcome("FileExists", filename, res, NoCmd)
    IN /\ metadata' = ld.metadata
       /\ db_location' = ld.db_location
       /\ wal_location' = ld.wal_location
       /\ tmp' = ld.tmp
       /\ last' = IF ~ld.ok THEN Answer(out("ok"), FALSE)
                  ELSE CASE type = "WAL" ->
                              Answer(out("ok"),
                                     WalExists(ld, path_no_ext, db_path_no_ext))
                         [] type = "DATABASE" ->
                              IF path_no_ext = db_path_no_ext
                              THEN Answer(out("ok"), DbExists(ld))
                              ELSE out("MultipleDatabases")
                         [] type = "TEMPORARY" ->
                              Answer(out("ok"),
                                     /\ filename \in DOMAIN ld.tmp.files
                                     /\ ld.tmp.files[filename].active)
                         [] OTHER -> out("InvalidInput")
       /\ UNCHANGED <<cfg, lba0, handle, th>>

(***************************************************************************)
(* GetAvailableDiskSpace(path).  Without metadata it dereferences a null   *)
(* unique_ptr.  The value for a path that is neither directory is an       *)
(* invalid optional_idx.                                                   *)
(***************************************************************************)
RootDir == <<"nvmefs://">>

TmpDir == <<"nvmefs://", "/tmp">>

\* TemporaryFileMetadataManager::GetAvailableSpace, in bytes
TmpGetAvailableSpace(mgr, lba_size) == Mul(SumFree(mgr.free), lba_size)

RemainingRoot ==
    LET db_max_bytes == Mul(Sub(Sub(metadata.wal_start, 1), metadata.db_start), LbaSize)
        wal_max_bytes == Mul(Sub(Sub(metadata.tmp_start, 1), metadata.wal_start), LbaSize)
        db_used_bytes == Mul(Sub(db_location, metadata.db_start), LbaSize)
        wal_used_bytes == Mul(Sub(wal_location, metadata.wal_start), LbaSize)
        temp_avail_bytes == TmpGetAvailableSpace(tmp, LbaSize)
    IN Add(Add(Sub(db_max_bytes, db_used_bytes), Sub(wal_max_bytes, wal_used_bytes)),
           temp_avail_bytes)

GetAvailableDiskSpace(path) ==
    LET out(res) == Outcome("GetAvailableDiskSpace", path, res, NoCmd)
    IN /\ last' = IF ~metadata.present THEN out("InternalError")
                  ELSE IF path = RootDir THEN Answer(out("ok"), RemainingRoot)
                  ELSE IF path = TmpDir
                  THEN Answer(out("ok"), TmpGetAvailableSpace(tmp, LbaSize))
                  ELSE out("ok")
       /\ UNCHANGED <<cfg, metadata, db_location, wal_location, tmp, lba0, handle, th>>

(***************************************************************************)
(* RemoveDirectory(directory): only the temporary directory can be         *)
(* removed.  Without metadata temp_meta_manager is a null unique_ptr.      *)
(***************************************************************************)
RemoveDirectory(directory) ==
    LET type == GetMetadataType(directory)
        res == IF type = "INVALID" THEN "InvalidInput"
               ELSE IF type # "TEMPORARY" THEN "UnknownDirectory"
               ELSE IF ~tmp.present THEN "InternalError"
               ELSE "ok"
    IN /\ tmp' = IF res = "ok" THEN TmpClear(tmp, metadata.tmp_start, LastLba)
                 ELSE tmp
       /\ last' = Outcome("RemoveDirectory", directory, res, NoCmd)
       /\ UNCHANGED <<cfg, metadata, db_location, wal_location, lba0, handle, th>>

(***************************************************************************)
(* FileSync(handle) and ~NvmeFileSystem().                                 *)
(***************************************************************************)
SbCmd == [dev |-> "write", start_lba |-> 0, nr_lbas |-> 1, offset |-> 0]

FileSync(path) ==
    /\ Holds(path)
    /\ metadata' = WriteMetadata(metadata, db_location, wal_location)
    /\ lba0' = Encode(metadata')
    /\ last' = Outcome("FileSync", path, "ok", SbCmd)
    /\ UNCHANGED <<cfg, db_location, wal_location, tmp, handle, th>>

\* The instance is destroyed (the destructor persists the metadata if there is
\* any) and a new instance is constructed over the same device.
Teardown ==
    /\ lba0' = IF metadata.present
               THEN Encode(WriteMetadata(metadata, db_location, wal_location))
               ELSE lba0
    /\ metadata' = NoMeta
    /\ db_location' = 0
    /\ wal_location' = 0
    /\ tmp' = NoManager
    /\ handle' = NoHandle
    /\ last' = Outcome("Teardown", <<>>, IF metadata.present THEN "ok" ELSE "none",
                       IF metadata.present THEN SbCmd ELSE NoCmd)
    /\ UNCHANGED <<cfg, th>>

\* The process ends without running the destructor (a crash, a power loss) and
\* a new instance is constructed over the same device.
Restart ==
    /\ metadata.present
    /\ metadata' = NoMeta
    /\ db_location' = 0
    /\ wal_location' = 0
    /\ tmp' = NoManager
    /\ handle' = NoHandle
    /\ last' = Outcome("Restart", <<>>, "none", NoCmd)
    /\ UNCHANGED <<cfg, lba0, th>>

(***************************************************************************)
(* The inputs of the calls: byte offsets and byte counts of whole blocks.  *)
(***************************************************************************)
MaxOffBlk == 2

MaxLenBlk == 1

Offsets == {Mul(k, LbaSize) : k \in 0..MaxOffBlk}

Lengths == {Mul(k, LbaSize) : k \in 1..MaxLenBlk}

IOPaths == {DbPath, WalPath, TmpPathA}

NoThreads == [t \in {} |-> 0]

InitFs ==
    /\ metadata = NoMeta
    /\ db_location = 0
    /\ wal_location = 0
    /\ tmp = NoManager
    /\ lba0 = Blank
    /\ handle = NoHandle
    /\ last = Outcome("none", <<>>, "none", NoCmd)

(***************************************************************************)
(* Spec: one caller doing I/O on the database, the WAL and a temporary     *)
(* file of one filesystem instance.                                        *)
(***************************************************************************)
Init ==
    /\ cfg \in {GeoSmall, GeoTight}
    /\ InitFs
    /\ th = NoThreads

Next ==
    \/ \E p \in IOPaths, create \in BOOLEAN : OpenFile(p, create)
    \/ \E p \in IOPaths, n \in Lengths, o \in Offsets, ok \in BOOLEAN : Write(p, n, o, ok)
    \/ \E p \in IOPaths, n \in Lengths, o \in Offsets, ok \in BOOLEAN : Trim(p, o, n, ok)
    \/ \E p \in IOPaths, n \in Lengths, o \in Offsets, ok \in BOOLEAN : Read(p, n, o, ok)
    \/ \E p \in IOPaths, o \in Offsets : Seek(p, o)
    \/ \E p \in IOPaths, o \in Offsets : Truncate(p, o)
    \/ \E p \in IOPaths : RemoveFile(p)

Spec == Init /\ [][Next]_vars

(***************************************************************************)
(* SpecMeta: the life of the superblock.  Callers open every kind of path, *)
(* move the two frontiers, sync, and the instance is torn down or lost and *)
(* a new one constructed over the same device.                             *)
(***************************************************************************)
InitMeta ==
    /\ cfg \in Geometries
    /\ InitFs
    /\ th = NoThreads

NextMeta ==
    \/ \E p \in Paths, create \in BOOLEAN : OpenFile(p, create)
    \/ \E p \in {DbPath, WalPath}, o \in Offsets : Write(p, LbaSize, o, TRUE)
    \/ \E p \in {DbPath, WalPath} : Truncate(p, 0)
    \/ RemoveFile(WalPath)
    \/ \E p \in {DbPath, WalPath} : FileSync(p)
    \/ Teardown
    \/ Restart

SpecMeta == InitMeta /\ [][NextMeta]_vars

(***************************************************************************)
(* SpecConc: NThreads threads, each with a handle of its own (cursor 0) on *)
(* the database or the WAL, each calling Write once.  A thread's Write is  *)
(* three kinds of step: the call up to and including device->Write, the    *)
(* load of expected_location, and one pass of the do-while loop.  A        *)
(* compare_exchange_weak that fails spuriously leaves every variable as it *)
(* was, which is a stuttering step.                                        *)
(***************************************************************************)
NThreads == 2

Threads == 1..NThreads

IdleThread == [pc |-> "idle", path |-> <<>>, new_location |-> 0,
               expected_location |-> 0, written |-> FALSE]

Frontier(type) == IF type = "WAL" THEN wal_location ELSE db_location

WriteIssue(t, path, nr_bytes, location, dev_ok) ==
    LET tr == Translate(path, nr_bytes, location, 0)
        written == tr.res = "ok" /\ dev_ok /\ DeviceAccepts(tr.cmd)
    IN /\ metadata.present
       /\ th[t].pc = "idle"
       /\ th' = [th EXCEPT ![t] = [pc |-> IF written THEN "load" ELSE "done",
                                   path |-> path,
                                   new_location |-> Add(tr.cmd.start_lba, tr.cmd.nr_lbas),
                                   expected_location |-> 0,
                                   written |-> written]]
       /\ UNCHANGED <<cfg, metadata, db_location, wal_location, tmp, lba0,
                      handle, last>>

LoadExpected(t) ==
    /\ th[t].pc = "load"
    /\ th' = [th EXCEPT ![t].pc = "cas",
                        ![t].expected_location = Frontier(GetMetadataType(th[t].path))]
    /\ UNCHANGED <<cfg, metadata, db_location, wal_location, tmp, lba0,
                   handle, last>>

\* A pass whose failed compare-and-swap does not reload expected_location.
CasPassKeepingExpected(t) ==
    LET type == GetMetadataType(th[t].path)
        new_location == th[t].new_location
        expected_location == th[t].expected_location
        swap == ~Surpassed(new_location, expected_location)
                /\ Frontier(type) = expected_location
    IN /\ th[t].pc = "cas"
       /\ th' = IF Surpassed(new_location, expected_location) \/ swap
                THEN [th EXCEPT ![t].pc = "done"]
                ELSE th
       /\ db_location' = IF swap /\ type = "DATABASE" THEN new_location
                         ELSE db_location
       /\ wal_location' = IF swap /\ type = "WAL" THEN new_location
                          ELSE wal_location
       /\ UNCHANGED <<cfg, metadata, tmp, lba0, handle, last>>

CasPass(t) ==
    LET type == GetMetadataType(th[t].path)
        new_location == th[t].new_location
        expected_location == th[t].expected_location
        swap == ~Surpassed(new_location, expected_location)
                /\ Frontier(type) = expected_location
    IN /\ th[t].pc = "cas"
       /\ th' = IF Surpassed(new_location, expected_location) \/ swap
                THEN [th EXCEPT ![t].pc = "done"]
                ELSE [th EXCEPT ![t].expected_location = Frontier(type)]
       /\ db_location' = IF swap /\ type = "DATABASE" THEN new_location
                         ELSE db_location
       /\ wal_location' = IF swap /\ type = "WAL" THEN new_location
                          ELSE wal_location
       /\ UNCHANGED <<cfg, metadata, tmp, lba0, handle, last>>

InitConc ==
    /\ cfg = GeoSmall
    /\ InitFs
    /\ th = [t \in Threads |-> IdleThread]

NextConc ==
    \/ ~metadata.present /\ OpenFile(DbPath, TRUE)
    \/ \E t \in Threads, p \in {DbPath, WalPath}, o \in Offsets, ok \in BOOLEAN :
          WriteIssue(t, p, LbaSize, o, ok)
    \/ \E t \in Threads : LoadExpected(t)
    \/ \E t \in Threads : CasPass(t)

SpecConc == InitConc /\ [][NextConc]_vars

(***************************************************************************)
(* SpecXlate: one caller seeking, reading and writing on the database and  *)
(* the WAL with byte offsets and byte counts that need not be multiples of *)
(* the block size, in the geometries whose regions fit.  Seek locations    *)
(* are multiples of the block size, as Seek asserts; a write is at the     *)
(* cursor or one byte after it; a file is truncated to a byte count or to  *)
(* nothing.                                                                *)
(***************************************************************************)
ByteOffsets == {Add(Mul(k, LbaSize), j) : k \in 0..MaxOffBlk, j \in {0, 1}}

ByteLengths == {1, LbaSize, Add(LbaSize, 1)}

SeekLocations == {Mul(k, LbaSize) : k \in 0..(MaxOffBlk + 1)}

InitXlate ==
    /\ cfg \in {GeoSmall, GeoS1}
    /\ InitFs
    /\ th = NoThreads

NextXlate ==
    \/ \E p \in {DbPath, WalPath}, create \in BOOLEAN : OpenFile(p, create)
    \/ \E p \in {DbPath, WalPath}, o \in SeekLocations : Seek(p, o)
    \/ \E p \in {DbPath, WalPath}, n \in ByteLengths, o \in ByteOffsets :
          Read(p, n, o, TRUE)
    \/ \E p \in {DbPath, WalPath}, n \in ByteLengths, o \in {0, 1} :
          Write(p, n, o, TRUE)
    \/ \E p \in {DbPath, WalPath}, n \in ByteLengths : ReadAtCursor(p, n, TRUE)
    \/ \E p \in {DbPath, WalPath}, n \in ByteLengths : WriteAtCursor(p, n, TRUE)
    \/ \E p \in {DbPath, WalPath}, n \in {0} \cup ByteLengths : Truncate(p, n)

SpecXlate == InitXlate /\ [][NextXlate]_vars

(***************************************************************************)
(* SpecDir: one caller opening, writing, removing and asking about files   *)
(* and free space, over instances that come and go on one device.          *)
(***************************************************************************)
DirPaths == {RootDir, TmpDir, DbPath}

DirFiles == {DbPath, WalPath, TmpPathA, InvalidPath} \cup LongPaths

InitDir ==
    /\ cfg = GeoSmall
    /\ InitFs
    /\ th = NoThreads

NextDir ==
    \/ \E p \in DirFiles, create \in BOOLEAN : OpenFile(p, create)
    \/ \E p \in IOPaths, dev_ok \in BOOLEAN : Write(p, LbaSize, 0, dev_ok)
    \/ \E p \in DirFiles : RemoveFile(p)
    \/ \E p \in DirFiles : FileExists(p)
    \/ \E p \in DirPaths : GetAvailableDiskSpace(p)
    \/ Teardown
    \/ Restart

SpecDir == InitDir /\ [][NextDir]_vars

(***************************************************************************)
(* SpecTmp: one caller creating, growing (by a write or a read past the    *)
(* end of the file's range), truncating and removing two                   *)
(* temporary files and clearing the temporary directory, which is every    *)
(* way the filesystem allocates, frees and resets temporary blocks.        *)
(***************************************************************************)
TmpFiles == {TmpPathA, TmpPathB}

InitTmp ==
    /\ cfg = GeoTemp
    /\ InitFs
    /\ th = NoThreads

NextTmp ==
    \/ \E p \in {DbPath} \cup TmpFiles, create \in BOOLEAN : OpenFile(p, create)
    \/ \E p \in TmpFiles, o \in Offsets : Write(p, LbaSize, o, TRUE)
    \/ \E p \in TmpFiles, o \in Offsets : Read(p, LbaSize, o, TRUE)
    \/ \E p \in TmpFiles, n \in {0, LbaSize} : Truncate(p, n)
    \/ \E p \in TmpFiles : RemoveFile(p)
    \/ \E d \in {TmpDir, DbPath} : RemoveDirectory(d)

SpecTmp == InitTmp /\ [][NextTmp]_vars

(***************************************************************************)
(* SpecTmpConc: NThreads threads, each with a handle of its own (cursor 0) *)
(* on a temporary file, each calling Write once, while a caller creates,   *)
(* truncates and removes temporary files.  The calls into the temporary    *)
(* manager (CreateFile, GetLBA, TruncateFile, DeleteFile, MoveLBALocation) *)
(* are one step each: its mutex serialises them.  Write holds no lock      *)
(* between them, so a thread's Write is three steps: the call up to the    *)
(* bounds check (GetLBA inside), device->Write, and UpdateMetadata.        *)
(***************************************************************************)
TmpIdleThread == [pc |-> "idle", path |-> <<>>, cmd |-> NoCmd]

\* Write, lines 309-320: the command is built from the LBA GetLBA returned.
TmpWriteResolve(t, path, nr_bytes, location) ==
    LET tr == Translate(path, nr_bytes, location, 0)
    IN /\ tmp.present
       /\ th[t].pc = "idle"
       /\ tmp' = tr.mgr
       /\ th' = [th EXCEPT ![t] = [pc |-> IF tr.res = "ok" THEN "resolved"
                                          ELSE "done",
                                   path |-> path,
                                   cmd |-> [tr.cmd EXCEPT !.dev = "write"]]]
       /\ UNCHANGED <<cfg, metadata, db_location, wal_location, lba0, handle,
                      last>>

\* Write, line 322: device->Write(buffer, *cmd_ctx).
TmpDeviceWrite(t) ==
    /\ th[t].pc = "resolved"
    /\ th' = [th EXCEPT ![t].pc = "written"]
    /\ last' = Outcome("Write", th[t].path, "ok", th[t].cmd)
    /\ UNCHANGED <<cfg, metadata, db_location, wal_location, tmp, lba0, handle>>

\* Write, line 323: UpdateMetadata, the TEMPORARY case.
TmpWriteUpdate(t) ==
    /\ th[t].pc = "written"
    /\ th' = [th EXCEPT ![t].pc = "done"]
    /\ tmp' = TmpMoveLBALocation(tmp, th[t].path,
                                 Add(th[t].cmd.start_lba, th[t].cmd.nr_lbas))
    /\ UNCHANGED <<cfg, metadata, db_location, wal_location, lba0, handle, last>>

InitTmpConc ==
    /\ cfg = GeoTemp
    /\ InitFs
    /\ th = [t \in Threads |-> TmpIdleThread]

NextTmpConc ==
    \/ ~metadata.present /\ OpenFile(DbPath, TRUE)
    \/ \E p \in TmpFiles, create \in BOOLEAN : tmp.present /\ OpenFile(p, create)
    \/ \E t \in Threads, p \in TmpFiles, o \in Offsets :
          TmpWriteResolve(t, p, LbaSize, o)
    \/ \E t \in Threads : TmpDeviceWrite(t)
    \/ \E t \in Threads : TmpWriteUpdate(t)
    \/ \E p \in TmpFiles : tmp.present /\ Truncate(p, 0)
    \/ \E p \in TmpFiles : tmp.present /\ RemoveFile(p)

SpecTmpConc == InitTmpConc /\ [][NextTmpConc]_vars

(***************************************************************************)
(* SpecTrunc: after one caller has written to the database and the WAL,    *)
(* NThreads threads, each with a handle of its own on the database or the  *)
(* WAL, call Truncate once each while a caller removes the WAL; nobody     *)
(* writes any more once a Truncate has begun.  A thread's Truncate is      *)
(* three kinds of step: GetFileSize with the size check, the load of       *)
(* expected_location, and one pass of the while loop.  A                   *)
(* compare_exchange_weak that fails spuriously leaves every variable as it *)
(* was.  seen is the frontier GetFileSize read.                            *)
(***************************************************************************)
TruncIdleThread == [pc |-> "idle", path |-> <<>>, new_location |-> 0,
                    expected_location |-> 0, seen |-> 0]

\* Truncate, lines 423-428 (and 451-453 when new_size is too big).
TruncateCheck(t, path, new_size) ==
    LET type == GetMetadataType(path)
        current_size == GetFileSize(path)
        new_lba_location == CalculateRequiredLBACount(new_size, LbaSize)
    IN /\ metadata.present
       /\ th[t].pc = "idle"
       /\ th' = [th EXCEPT ![t] = [pc |-> IF new_size <= current_size THEN "trunc_load"
                                          ELSE "threw",
                                   path |-> path,
                                   new_location |-> Add(RegionStart(type),
                                                        new_lba_location),
                                   expected_location |-> 0,
                                   seen |-> Frontier(type)]]
       /\ UNCHANGED <<cfg, metadata, db_location, wal_location, tmp, lba0,
                      handle, last>>

\* Truncate, lines 432 and 439: expected_location = location.load().
TruncateLoad(t) ==
    /\ th[t].pc = "trunc_load"
    /\ th' = [th EXCEPT ![t].pc = "trunc_cas",
                        ![t].expected_location = Frontier(GetMetadataType(th[t].path))]
    /\ UNCHANGED <<cfg, metadata, db_location, wal_location, tmp, lba0,
                   handle, last>>

\* Truncate, lines 435-436 and 442-443: one compare_exchange_weak.
TruncateCas(t) ==
    LET type == GetMetadataType(th[t].path)
        swap == Frontier(type) = th[t].expected_location
    IN /\ th[t].pc = "trunc_cas"
       /\ th' = IF swap THEN [th EXCEPT ![t].pc = "returned"]
                ELSE [th EXCEPT ![t].expected_location = Frontier(type)]
       /\ db_location' = IF swap /\ type = "DATABASE" THEN th[t].new_location
                         ELSE db_location
       /\ wal_location' = IF swap /\ type = "WAL" THEN th[t].new_location
                          ELSE wal_location
       /\ UNCHANGED <<cfg, metadata, tmp, lba0, handle, last>>

NoTruncateBegun == \A t \in Threads : th[t].pc = "idle"

InitTrunc ==
    /\ cfg = GeoSmall
    /\ InitFs
    /\ th = [t \in Threads |-> TruncIdleThread]

NextTrunc ==
    \/ \E p \in {DbPath, WalPath} : NoTruncateBegun /\ OpenFile(p, TRUE)
    \/ \E p \in {DbPath, WalPath}, o \in Offsets :
          NoTruncateBegun /\ Write(p, LbaSize, o, TRUE)
    \/ \E t \in Threads, p \in {DbPath, WalPath}, n \in Offsets :
          TruncateCheck(t, p, n)
    \/ \E t \in Threads : TruncateLoad(t)
    \/ \E t \in Threads : TruncateCas(t)
    \/ metadata.present /\ RemoveFile(WalPath)

SpecTrunc == InitTrunc /\ [][NextTrunc]_vars

(***************************************************************************)
(* SpecOpen: NThreads threads call OpenFile on the database path of a      *)
(* blank namespace, once each.  OpenFile holds no lock, so a thread's      *)
(* OpenFile is two steps when TryLoadMetadata finds nothing: the call of   *)
(* TryLoadMetadata, and InitializeMetadata with the rest of OpenFile.  A   *)
(* caller whose OpenFile has returned writes to the database and the WAL   *)
(* and creates a temporary file.                                           *)
(***************************************************************************)
OpenIdleThread == [pc |-> "idle"]

SomeOpenReturned == \E t \in DOMAIN th : th[t].pc = "opened"

\* OpenFile, lines 269-270: TryLoadMetadata(); with metadata found the call
\* goes on to return the handle (lines 280-287).
OpenCheck(t, path) ==
    LET ld == TryLoadMetadata
    IN /\ th[t].pc = "idle"
       /\ metadata' = ld.metadata
       /\ db_location' = ld.db_location
       /\ wal_location' = ld.wal_location
       /\ tmp' = ld.tmp
       /\ th' = [th EXCEPT ![t].pc = IF ld.ok THEN "opened" ELSE "init"]
       /\ handle' = IF ld.ok THEN [open |-> TRUE, path |-> path, cursor |-> 0]
                    ELSE handle
       /\ last' = IF ld.ok THEN Outcome("OpenFile", path, "ok", NoCmd) ELSE last
       /\ UNCHANGED <<cfg, lba0>>

\* OpenFile, lines 271-287, for a thread whose TryLoadMetadata returned
\* false: InitializeMetadata(path) and the handle.
OpenInit(t, path) ==
    LET im == InitializeMetadata(path)
    IN /\ th[t].pc = "init"
       /\ metadata' = im.metadata
       /\ db_location' = im.db_location
       /\ wal_location' = im.wal_location
       /\ tmp' = im.tmp
       /\ lba0' = im.lba0
       /\ th' = [th EXCEPT ![t].pc = "opened"]
       /\ handle' = [open |-> TRUE, path |-> path, cursor |-> 0]
       /\ last' = Outcome("OpenFile", path, "ok", NoCmd)
       /\ UNCHANGED cfg

InitOpen ==
    /\ cfg = GeoSmall
    /\ InitFs
    /\ th = [t \in Threads |-> OpenIdleThread]

NextOpen ==
    \/ \E t \in Threads : OpenCheck(t, DbPath)
    \/ \E t \in Threads : OpenInit(t, DbPath)
    \/ \E p \in {WalPath, TmpPathA} : SomeOpenReturned /\ OpenFile(p, TRUE)
    \/ \E p \in IOPaths, o \in Offsets :
          SomeOpenReturned /\ Write(p, LbaSize, o, TRUE)

SpecOpen == InitOpen /\ [][NextOpen]_vars

(***************************************************************************)
(* SpecFrontier: NThreads threads, each calling Write or Truncate once on  *)
(* the database or the WAL, so that the loops of UpdateMetadata and of     *)
(* Truncate run against each other.  The threads run on the caller's       *)
(* threads, which the scheduler does not starve: a step of a loop that     *)
(* stays possible is taken (weak fairness).  A compare_exchange_weak that  *)
(* fails spuriously changes nothing and is tried again.                    *)
(***************************************************************************)
NextFrontier ==
    \/ ~metadata.present /\ OpenFile(DbPath, TRUE)
    \/ \E t \in Threads, p \in {DbPath, WalPath}, o \in Offsets :
          WriteIssue(t, p, LbaSize, o, TRUE)
    \/ \E t \in Threads : LoadExpected(t)
    \/ \E t \in Threads : CasPass(t)
    \/ \E t \in Threads, p \in {DbPath, WalPath}, n \in Offsets :
          TruncateCheck(t, p, n)
    \/ \E t \in Threads : TruncateLoad(t)
    \/ \E t \in Threads : TruncateCas(t)

FairLoops ==
    \A t \in Threads :
        /\ WF_vars(LoadExpected(t))
        /\ WF_vars(CasPass(t))
        /\ WF_vars(TruncateLoad(t))
        /\ WF_vars(TruncateCas(t))

SpecFrontier == InitConc /\ [][NextFrontier]_vars /\ FairLoops

(***************************************************************************)
(* SpecClassify: GetMetadataType applied to a path drawn from the paths    *)
(* made of the prefix and up to MaxPathTokens of the pieces the classifier *)
(* looks for, in any order.                                                *)
(***************************************************************************)
MaxPathTokens == 3

PathTokens == {"/tmp", ".wal", ".db", "a"}

ClassifiedPaths ==
    {<<"nvmefs://">> \o t :
        t \in UNION {[1..n -> PathTokens] : n \in 1..MaxPathTokens}}

InitClassify ==
    /\ cfg = GeoSmall
    /\ metadata = NoMeta
    /\ db_location = 0
    /\ wal_location = 0
    /\ tmp = NoManager
    /\ lba0 = Blank
    /\ handle = NoHandle
    /\ th = NoThreads
    /\ \E p \in ClassifiedPaths : last = Outcome("none", p, "none", NoCmd)

Classify ==
    /\ last.op = "none"
    /\ last' = Outcome("GetMetadataType", last.path, GetMetadataType(last.path),
                       NoCmd)
    /\ UNCHANGED <<cfg, metadata, db_location, wal_location, tmp, lba0, handle, th>>

NextClassify == Classify

SpecClassify == InitClassify /\ [][NextClassify]_vars

(***************************************************************************)
(* The regions as section 3 of the specification lays them out:            *)
(* DATABASE [db_start, wal_start), WAL [wal_start, tmp_start),             *)
(* TEMPORARY [tmp_start, lba_count).                                       *)
(***************************************************************************)
RegionEnd(type) ==
    CASE type = "WAL" -> metadata.tmp_start
      [] type = "TEMPORARY" -> cfg.lba_count
      [] OTHER -> metadata.wal_start

Contained(type, start_lba, nr_lbas) ==
    RegionStart(type) <= start_lba /\ start_lba + nr_lbas <= RegionEnd(type)

SetMax(S) == CHOOSE x \in S : \A y \in S : y <= x

\* The end LBAs of the writes of a kind whose device write succeeded.
Ends(type) ==
    {th[t].new_location :
        t \in {u \in Threads : th[u].written /\ GetMetadataType(th[u].path) = type}}

AllReturned == \A t \in Threads : th[t].pc = "done"

\* C1: from a freshly initialised namespace, once every concurrent write to
\* the DATABASE region (respectively the WAL region) has returned, whatever
\* the interleaving of device writes and compare-and-swap passes, the
\* in-memory frontier of the region is the maximum of start_lba + nr_lbas
\* over the writes whose device write succeeded (the region start when none
\* succeeded).
FrontierIsMaxEnd ==
    (metadata.present /\ AllReturned) =>
        \A type \in {"DATABASE", "WAL"} :
            Frontier(type) = IF Ends(type) = {} THEN RegionStart(type)
                             ELSE SetMax(Ends(type))

FrontierIsMaxEndReached ==
    /\ AllReturned
    /\ th[1].written /\ th[2].written
    /\ th[1].path = DbPath /\ th[2].path = DbPath
    /\ th[1].new_location > th[2].new_location
    /\ db_location = th[1].new_location

\* C2: whenever metadata is loaded, db_start <= db_frontier <= wal_start and
\* wal_start <= wal_frontier <= tmp_start.
FrontiersWithinRegions ==
    metadata.present =>
        /\ metadata.db_start <= db_location /\ db_location <= metadata.wal_start
        /\ metadata.wal_start <= wal_location /\ wal_location <= metadata.tmp_start

\* C3: a Read or Write whose translated interval [start_lba, start_lba +
\* nr_lbas) is not contained in the region of the path's kind fails with the
\* out-of-range error, and no device command is issued for it.
OutOfRegionIsRejected ==
    /\ (/\ last.op \in {"Read", "Write"}
        /\ last.res \in {"ok", "DeviceError", "OutOfRange"}
        /\ ~Contained(GetMetadataType(last.path), last.cmd.start_lba,
                      last.cmd.nr_lbas))
       => last.res = "OutOfRange"
    /\ last.res = "OutOfRange" => last.cmd.dev = "none"

OutOfRegionIsRejectedReached ==
    /\ last.op = "Write"
    /\ last.path = DbPath
    /\ last.res = "OutOfRange"
    /\ last.cmd.start_lba + last.cmd.nr_lbas > metadata.wal_start

\* C4: a Write on a DATABASE or WAL path whose device write fails reports
\* the error and leaves both frontiers and the persisted superblock as they
\* were; a Write moves a frontier only when its device write has succeeded.
FailedWriteChangesNothing ==
    [][/\ (/\ last'.op = "Write"
           /\ last'.path \in {DbPath, WalPath}
           /\ last'.res = "DeviceError")
          => /\ db_location' = db_location
             /\ wal_location' = wal_location
             /\ disk_sb' = disk_sb
       /\ (/\ last'.op = "Write"
           /\ (db_location' # db_location \/ wal_location' # wal_location))
          => (last'.res = "ok" /\ last'.cmd.dev = "write")]_vars

FailedWriteChangesNothingReached ==
    /\ last.op = "Write"
    /\ last.path = DbPath
    /\ last.res = "DeviceError"
    /\ last.cmd.start_lba + last.cmd.nr_lbas > db_location

\* The LBAs of the last device command.
CmdLbas == last.cmd.start_lba .. (last.cmd.start_lba + last.cmd.nr_lbas - 1)

\* The LBAs that hold what was written through the paths of a kind.
DataOf(type) ==
    CASE type = "WAL" -> metadata.wal_start .. (wal_location - 1)
      [] type = "DATABASE" -> metadata.db_start .. (db_location - 1)
      [] OTHER -> UNION {tmp.files[n].start .. (tmp.files[n].frontier - 1) :
                           n \in {f \in TmpPaths : tmp.files[f].active}}

\* C5: an accepted write through a path of one kind changes neither LBA 0
\* nor an LBA that holds what was written through a path of another kind, so
\* that what is read back through the other kinds is what was last written
\* there.
WritesStayInTheirKind ==
    (metadata.present /\ last.op \in {"Write", "Trim"} /\ last.res = "ok") =>
        /\ 0 \notin CmdLbas
        /\ \A type \in {"DATABASE", "WAL", "TEMPORARY"} \ {GetMetadataType(last.path)} :
              CmdLbas \cap DataOf(type) = {}

\* C6 as the specification states it: on a namespace without the magic
\* prefix the first OpenFile of a DATABASE path succeeds, persists a
\* superblock and loads the metadata; from then on OpenFile of the WAL path
\* and of temporary paths succeeds.
FirstDbOpenInitialises ==
    [][/\ (/\ ~disk_sb.present
           /\ last'.op = "OpenFile"
           /\ last'.path \in {DbPath, LongDbPath})
          => (last'.res = "ok" /\ disk_sb'.present /\ metadata'.present)
       /\ (/\ disk_sb.present
           /\ last'.op = "OpenFile"
           /\ last'.path \in {WalPath} \cup TmpPaths)
          => last'.res = "ok"]_vars

\* C6, amended: on a namespace without the magic prefix the first OpenFile
\* of a DATABASE path of at most 100 bytes succeeds, persists a superblock
\* and loads the metadata, and one of a longer DATABASE path fails and
\* leaves the namespace as it was; once a superblock is there OpenFile of
\* the WAL path succeeds, and OpenFile of a temporary path succeeds unless
\* the temporary region has no free range for a new file.
FirstShortDbOpenInitialises ==
    [][/\ (/\ ~disk_sb.present
           /\ last'.op = "OpenFile"
           /\ last'.path \in {DbPath, LongDbPath})
          => IF PathLength(last'.path) <= 100
             THEN last'.res = "ok" /\ disk_sb'.present /\ metadata'.present
             ELSE /\ last'.res = "TooLong"
                  /\ UNCHANGED <<metadata, db_location, wal_location, tmp, disk_sb>>
       /\ (/\ disk_sb.present
           /\ last'.op = "OpenFile"
           /\ last'.path \in {WalPath} \cup TmpPaths)
          => \/ last'.res = "ok" /\ metadata'.present
             \/ /\ last'.path \in TmpPaths
                /\ last'.res = "NoSpace"
                /\ FirstFit(tmp'.free, InitialBlocks) = 0]_vars

FirstShortDbOpenInitialisesReached ==
    /\ last.op = "OpenFile"
    /\ last.path = WalPath
    /\ last.res = "ok"
    /\ metadata.present
    /\ disk_sb.present

InitPersistsFrontiers ==
    [][(~disk_sb.present /\ disk_sb'.present) =>
          /\ disk_sb'.db_location = disk_sb'.db_start
          /\ disk_sb'.wal_location = disk_sb'.wal_start
          /\ disk_sb'.db_location = db_location'
          /\ disk_sb'.wal_location = wal_location']_vars

\* C9: on a namespace without the magic prefix, OpenFile of the WAL path or
\* of a temporary path fails with the 'no database attached' error, the
\* metadata stays unloaded and nothing is written to the device.
OpenWithoutDatabaseFails ==
    [][(/\ ~disk_sb.present
        /\ last'.op = "OpenFile"
        /\ last'.path \in {WalPath} \cup TmpPaths)
       => /\ last'.res = "NoDatabase"
          /\ last'.cmd.dev = "none"
          /\ ~metadata'.present
          /\ disk_sb' = disk_sb
          /\ ~handle'.open]_vars

OpenWithoutDatabaseFailsReached ==
    /\ last.op = "OpenFile"
    /\ last.path = TmpPathA
    /\ last.res = "NoDatabase"
    /\ ~disk_sb.present
    /\ ~metadata.present

\* C10: when FileSync returns, and when a loaded instance is torn down, the
\* frontiers in the record at LBA 0 are the in-memory frontiers of that
\* moment, and the record's partition boundaries and db_path are what they
\* were.
SyncPersistsFrontiers ==
    [][(\/ last'.op = "FileSync"
        \/ last'.op = "Teardown" /\ metadata.present)
       => /\ disk_sb'.present
          /\ disk_sb'.db_location = db_location
          /\ disk_sb'.wal_location = wal_location
          /\ disk_sb'.db_start = disk_sb.db_start
          /\ disk_sb'.wal_start = disk_sb.wal_start
          /\ disk_sb'.tmp_start = disk_sb.tmp_start
          /\ disk_sb'.db_path_size = disk_sb.db_path_size
          /\ disk_sb'.db_path = disk_sb.db_path]_vars

SyncPersistsFrontiersReached ==
    /\ last.op = "Teardown"
    /\ last.res = "ok"
    /\ disk_sb.db_location > disk_sb.db_start
    /\ disk_sb.wal_location > disk_sb.wal_start

\* C11: the record WriteMetadata encodes into LBA 0 decodes back equal in
\* every field (db_start, wal_start, tmp_start, db_location, wal_location,
\* db_path_size, db_path), and an instance that loads a persisted superblock
\* starts with the persisted record and frontiers.
SuperblockRoundTrip ==
    [][/\ metadata'.present => Decode(Encode(metadata')) = metadata'
       /\ (lba0' # lba0 /\ metadata'.present) => Decode(lba0') = metadata'
       /\ (lba0' # lba0 /\ ~metadata'.present) =>
             Decode(lba0') = WriteMetadata(metadata, db_location, wal_location)
       /\ (~metadata.present /\ metadata'.present /\ Decode(lba0).present) =>
             /\ metadata' = Decode(lba0)
             /\ db_location' = Decode(lba0).db_location
             /\ wal_location' = Decode(lba0).wal_location
             /\ lba0' = lba0]_vars

SuperblockRoundTripReached ==
    /\ last.op = "OpenFile"
    /\ metadata.present
    /\ metadata = Decode(lba0)
    /\ metadata.db_path = DbPath
    /\ metadata.db_location > metadata.db_start
    /\ metadata.wal_location > metadata.wal_start
    /\ db_location = metadata.db_location
    /\ wal_location = metadata.wal_location

\* C12: once metadata is loaded no operation changes db_start, wal_start or
\* tmp_start, in memory or in the persisted superblock, and
\* 1 = db_start < wal_start < tmp_start, so that the three regions are
\* pairwise disjoint.
LayoutFixedAndOrdered ==
    /\ [](metadata.present =>
            /\ metadata.db_start = 1
            /\ metadata.db_start < metadata.wal_start
            /\ metadata.wal_start < metadata.tmp_start)
    /\ [][(metadata.present /\ metadata'.present) =>
            /\ metadata'.db_start = metadata.db_start
            /\ metadata'.wal_start = metadata.wal_start
            /\ metadata'.tmp_start = metadata.tmp_start
            /\ disk_sb'.db_start = disk_sb.db_start
            /\ disk_sb'.wal_start = disk_sb.wal_start
            /\ disk_sb'.tmp_start = disk_sb.tmp_start]_vars

\* C13: with metadata loaded, OpenFile of a DATABASE path or of the WAL path,
\* with or without the create flag, succeeds and leaves the partition
\* boundaries, both frontiers, the stored db_path, the temporary-file state
\* and the superblock at LBA 0 as they were.
ReopenChangesNothing ==
    [][(/\ metadata.present
        /\ last'.op = "OpenFile"
        /\ last'.path \in {DbPath, LongDbPath, WalPath})
       => /\ last'.res = "ok"
          /\ metadata' = metadata
          /\ db_location' = db_location
          /\ wal_location' = wal_location
          /\ tmp' = tmp
          /\ lba0' = lba0]_vars

ReopenChangesNothingReached ==
    /\ last.op = "OpenFile"
    /\ last.path = DbPath
    /\ last.res = "ok"
    /\ db_location > metadata.db_start
    /\ wal_location > metadata.wal_start
    /\ tmp.files[TmpPathA].active

(***************************************************************************)
(* C14.  A Read or Write on a DATABASE or WAL handle with cursor c and     *)
(* caller offset o builds a command whose start_lba is the region's start  *)
(* plus (o + c) / lba_size and whose in-block offset is (o + c) mod        *)
(* lba_size; the command is the one that the offset c + o builds with the  *)
(* cursor at 0.                                                            *)
(***************************************************************************)
IsAccess == last.op \in {"Read", "Write"} /\ last.path \in {DbPath, WalPath}

EffOffset == last.req.location + handle.cursor

AccessAddressesCursorPlusOffset ==
    IsAccess =>
        /\ last.cmd.start_lba
               = RegionStart(GetMetadataType(last.path)) + EffOffset \div LbaSize
        /\ last.cmd.offset = EffOffset % LbaSize
        /\ Translate(last.path, last.req.nr_bytes, EffOffset, 0).cmd
               = [last.cmd EXCEPT !.dev = "none"]

AccessAddressesCursorPlusOffsetReached ==
    /\ IsAccess
    /\ last.res = "ok"
    /\ handle.cursor > 0
    /\ last.req.location > LbaSize
    /\ last.req.location % LbaSize # 0

(***************************************************************************)
(* C15.  The number of LBAs in the command of a Read or Write of `bytes`   *)
(* bytes at effective offset eff_offset, which is also the number the      *)
(* bounds check uses, is ceil((bytes + eff_offset mod lba_size) /          *)
(* lba_size).                                                              *)
(***************************************************************************)
CeilDiv(a, b) == (a + b - 1) \div b

LbaCountCoversInBlockOffset ==
    IsAccess =>
        last.cmd.nr_lbas
           = CeilDiv(last.req.nr_bytes + (EffOffset % LbaSize), LbaSize)

(***************************************************************************)
(* C16.  The bounds check of a Read or Write on a DATABASE or WAL path     *)
(* accepts exactly the requests inside the half-open region of the kind,   *)
(* DATABASE = [1, wal_start) and WAL = [wal_start, tmp_start): the request *)
(* fails with OutOfRange if and only if start_lba < region_start or        *)
(* start_lba + nr_lbas > region_end, so a request that covers the last     *)
(* LBA of its region is accepted.                                          *)
(***************************************************************************)
IsCheckedAccess ==
    /\ last.op \in {"Read", "Write"}
    /\ last.path \in {DbPath, WalPath}
    /\ last.res \in {"ok", "DeviceError", "OutOfRange"}

HalfOpenRegionIsAccepted ==
    IsCheckedAccess =>
        (last.res # "OutOfRange"
            <=> Contained(GetMetadataType(last.path), last.cmd.start_lba,
                          last.cmd.nr_lbas))

(***************************************************************************)
(* C17.  A Seek whose location is at or beyond the bound of the handle's   *)
(* region, and in particular beyond the region's last byte, fails and      *)
(* leaves the cursor at its previous value; a Seek that succeeds sets the  *)
(* cursor to the requested location; in both cases the metadata, the       *)
(* frontiers, the temporary files and LBA 0 are as they were.              *)
(***************************************************************************)
RegionBytes(path) ==
    LET type == GetMetadataType(path)
    IN IF type = "TEMPORARY" THEN TmpGetFileSizeLBA(tmp, path) * LbaSize
       ELSE (RegionEnd(type) - RegionStart(type)) * LbaSize

SeekMovesOnlyTheCursor ==
    [][last'.op = "Seek" =>
          /\ last'.res \in {"ok", "OutOfRange", "NotFound"}
          /\ last'.req.location >= MaxSeekBound(last'.path) => last'.res # "ok"
          /\ (/\ GetMetadataType(last'.path) \in {"DATABASE", "WAL"}
              /\ metadata.wal_start < metadata.tmp_start
              /\ last'.req.location >= RegionBytes(last'.path))
                => last'.res = "OutOfRange"
          /\ last'.res # "ok" => handle' = handle
          /\ last'.res = "ok"
                => handle' = [handle EXCEPT !.cursor = last'.req.location]
          /\ UNCHANGED <<cfg, metadata, db_location, wal_location, tmp, lba0>>
      ]_vars

SeekMovesOnlyTheCursorReached ==
    /\ last.op = "Seek"
    /\ last.res = "OutOfRange"
    /\ handle.cursor > 0
    /\ handle.cursor # last.req.location
    /\ db_location > metadata.db_start

(***************************************************************************)
(* C18.  The Seek bound is the size of the region: a Seek on a DATABASE or *)
(* WAL handle succeeds exactly when its location is smaller than           *)
(* (region_end - region_start) * lba_size, with DATABASE = [db_start,      *)
(* wal_start) and WAL = [wal_start, tmp_start), and a Seek on a temporary  *)
(* handle exactly when its location is smaller than the size of the file's *)
(* block range.                                                            *)
(***************************************************************************)
SeekBoundIsRegionSize ==
    (last.op = "Seek" /\ last.res \in {"ok", "OutOfRange"})
        => (last.res = "ok" <=> last.req.location < RegionBytes(last.path))

(***************************************************************************)
(* C19.  The cursor-relative Read(handle, buffer, n) and Write(handle,     *)
(* buffer, n) return n and leave the handle's cursor as it was; a          *)
(* cursor-relative Read of n bytes that follows a successful               *)
(* cursor-relative Write of n bytes on the same handle succeeds, returns n *)
(* and reads the LBAs and the in-block offset that the Write wrote.        *)
(***************************************************************************)
CursorRelativeReturnsCount ==
    [][/\ last'.op \in {"ReadAtCursor", "WriteAtCursor"}
             => /\ handle' = handle
                /\ last'.res = "ok" => last'.ret = last'.req.nr_bytes
                /\ last'.res # "ok" => last'.ret = NoRet
                /\ last'.cmd.start_lba
                      = RegionStart(GetMetadataType(last'.path))
                           + handle.cursor \div LbaSize
       /\ (/\ last.op = "WriteAtCursor"
           /\ last.res = "ok"
           /\ last'.op = "ReadAtCursor"
           /\ last'.path = last.path
           /\ last'.req.nr_bytes = last.req.nr_bytes)
             => /\ last'.res = "ok"
                /\ last'.ret = last.ret
                /\ last'.cmd = [last.cmd EXCEPT !.dev = "read"]
      ]_vars

CursorRelativeReturnsCountReached ==
    /\ last.op = "ReadAtCursor"
    /\ last.path = DbPath
    /\ last.res = "ok"
    /\ last.ret = LbaSize + 1
    /\ handle.cursor > 0
    /\ db_location = last.cmd.start_lba + last.cmd.nr_lbas

(***************************************************************************)
(* C20.  Path classification is first-match in the order: a path that      *)
(* contains "/tmp" is TEMPORARY, also when it contains ".wal" or ".db";    *)
(* otherwise a path that ends in ".wal" is WAL, and one that has ".wal"    *)
(* only in the middle is not; otherwise a path that contains ".db" is      *)
(* DATABASE; otherwise the path is invalid.  (The superblock sentinel is   *)
(* not among the paths drawn.)                                             *)
(***************************************************************************)
EndsWith(path, tok) == Len(path) > 0 /\ path[Len(path)] = tok

SpecifiedKind(path) ==
    IF Contains(path, "/tmp") THEN "TEMPORARY"
    ELSE IF EndsWith(path, ".wal") THEN "WAL"
    ELSE IF Contains(path, ".db") THEN "DATABASE"
    ELSE "INVALID"

ClassifiedInSpecifiedOrder ==
    last.op = "GetMetadataType" => last.res = SpecifiedKind(last.path)

(***************************************************************************)
(* C21.  On a namespace without a superblock FileExists returns false for  *)
(* every path, leaves the filesystem without metadata and writes nothing   *)
(* to LBA 0.                                                               *)
(***************************************************************************)
FileExistsOnBlankIsFalse ==
    [][(last'.op = "FileExists" /\ ~metadata.present /\ ~disk_sb.present)
          => /\ last'.res = "ok"
             /\ last'.ret = FALSE
             /\ ~metadata'.present
             /\ UNCHANGED <<metadata, db_location, wal_location, tmp, lba0, handle>>
      ]_vars

FileExistsOnBlankIsFalseReached ==
    /\ last.op = "FileExists"
    /\ last.path = DbPath
    /\ last.ret = FALSE
    /\ ~metadata.present
    /\ lba0 = Blank

(***************************************************************************)
(* C22.  With metadata loaded, FileExists on a DATABASE path whose stem is *)
(* the stem of the stored db_path returns true if and only if db_frontier  *)
(* > db_start; on a DATABASE path with another stem it fails with the      *)
(* 'multiple databases' error.  Neither changes any state.                 *)
(***************************************************************************)
IsDbFileExists ==
    /\ last'.op = "FileExists"
    /\ metadata.present
    /\ GetMetadataType(last'.path) = "DATABASE"

DbExistsIffWritten ==
    [][IsDbFileExists
          => /\ GetFileStem(last'.path) = GetFileStem(metadata.db_path)
                  => /\ last'.res = "ok"
                     /\ last'.ret = (db_location > metadata.db_start)
             /\ GetFileStem(last'.path) # GetFileStem(metadata.db_path)
                  => last'.res = "MultipleDatabases"
             /\ UNCHANGED <<metadata, db_location, wal_location, tmp, lba0, handle>>
      ]_vars

(***************************************************************************)
(* C23.  With metadata loaded, FileExists on the WAL path whose stem is    *)
(* the stem of the stored db_path returns true if and only if wal_frontier *)
(* > wal_start: false right after initialisation and right after           *)
(* RemoveFile of the WAL.                                                  *)
(***************************************************************************)
WalExistsIffWritten ==
    [][(/\ last'.op = "FileExists"
        /\ metadata.present
        /\ last'.path = WalPath
        /\ GetFileStem(GetFileStem(WalPath)) = GetFileStem(metadata.db_path))
          => /\ last'.res = "ok"
             /\ last'.ret = (wal_location > metadata.wal_start)
      ]_vars

(***************************************************************************)
(* C24.  RemoveFile on the WAL path sets wal_frontier to wal_start and     *)
(* leaves db_frontier, the partition boundaries and LBA 0 as they were;    *)
(* applied a second time it succeeds again and changes nothing; after      *)
(* either call the size of the WAL file is 0.                              *)
(***************************************************************************)
IsWalRemove(outcome) == outcome.op = "RemoveFile" /\ outcome.path = WalPath

RemoveWalResetsFrontier ==
    [][(IsWalRemove(last') /\ metadata.present)
          => /\ last'.res = "ok"
             /\ wal_location' = metadata.wal_start
             /\ GetFileSize(WalPath)' = 0
             /\ UNCHANGED <<metadata, db_location, tmp, lba0, handle>>
             /\ (IsWalRemove(last) /\ last.res = "ok") => UNCHANGED wal_location
      ]_vars

RemoveWalResetsFrontierReached ==
    /\ IsWalRemove(last)
    /\ last.res = "ok"
    /\ wal_location = metadata.wal_start
    /\ disk_sb.present
    /\ disk_sb.wal_location > metadata.wal_start
    /\ db_location > metadata.db_start

(***************************************************************************)
(* C25.  RemoveFile on a DATABASE path is rejected: the call reports an    *)
(* error, and db_frontier, wal_frontier, the temporary files and LBA 0     *)
(* stay as they were.                                                      *)
(***************************************************************************)
RemoveDbIsRejected ==
    [][(last'.op = "RemoveFile" /\ GetMetadataType(last'.path) = "DATABASE")
          => /\ last'.res # "ok"
             /\ UNCHANGED <<metadata, db_location, wal_location, tmp, lba0, handle>>
      ]_vars

(***************************************************************************)
(* C26.  With one caller, Truncate(handle, new_size) on a DATABASE or WAL  *)
(* handle with new_size <= the file's size sets the frontier of the region *)
(* to region_start + ceil(new_size / lba_size), after which GetFileSize    *)
(* returns ceil(new_size / lba_size) * lba_size; with new_size greater     *)
(* than the file's size it fails and leaves the frontier as it was.        *)
(* Neither touches the other frontier, the boundaries or LBA 0.            *)
(***************************************************************************)
IsTruncate(outcome) ==
    outcome.op = "Truncate" /\ outcome.path \in {DbPath, WalPath}

TruncateSetsFrontier ==
    [][\A path \in {DbPath, WalPath} :
          (IsTruncate(last') /\ last'.path = path)
             => LET type == GetMetadataType(path)
                    new_size == last'.req.nr_bytes
                    blocks == CeilDiv(new_size, LbaSize)
                IN /\ new_size <= GetFileSize(path)
                        => /\ last'.res = "ok"
                           /\ Frontier(type)' = RegionStart(type) + blocks
                           /\ GetFileSize(path)' = blocks * LbaSize
                   /\ new_size > GetFileSize(path)
                        => /\ last'.res = "TooBig"
                           /\ UNCHANGED <<db_location, wal_location>>
                   /\ type = "DATABASE" => UNCHANGED wal_location
                   /\ type = "WAL" => UNCHANGED db_location
                   /\ UNCHANGED <<metadata, tmp, lba0, handle>>
      ]_vars

TruncateSetsFrontierReached ==
    /\ IsTruncate(last)
    /\ last.res = "ok"
    /\ last.req.nr_bytes % LbaSize # 0
    /\ GetFileSize(last.path) = last.req.nr_bytes + 1
    /\ Frontier(GetMetadataType(last.path)) > RegionStart(GetMetadataType(last.path))

(***************************************************************************)
(* C27.  GetAvailableDiskSpace for the root path returns ((wal_start -     *)
(* db_frontier) + (tmp_start - wal_frontier)) * lba_size plus the free     *)
(* blocks of the temporary manager times lba_size; for the /tmp directory  *)
(* it returns the free space of the temporary manager alone.               *)
(***************************************************************************)
TmpFreeBytes == SumFree(tmp.free) * LbaSize

AvailableSpaceAsSpecified ==
    (last.op = "GetAvailableDiskSpace" /\ last.res = "ok")
        => /\ last.path = RootDir
                => last.ret = ((metadata.wal_start - db_location)
                                 + (metadata.tmp_start - wal_location)) * LbaSize
                              + TmpFreeBytes
           /\ last.path = TmpDir => last.ret = TmpFreeBytes

(***************************************************************************)
(* C28.  OpenFile rejects every path longer than 100 bytes, of whichever   *)
(* kind and whether or not metadata is loaded, and the rejection leaves    *)
(* the superblock, the frontiers and the temporary files as they were.     *)
(***************************************************************************)
LongPathIsRejected ==
    [][(last'.op = "OpenFile" /\ PathLength(last'.path) > 100)
          => /\ last'.res # "ok"
             /\ UNCHANGED <<lba0, db_location, wal_location, tmp>>
      ]_vars

(***************************************************************************)
(* C29.  OpenFile on a path that contains none of ".wal", "/tmp" and ".db" *)
(* fails with InvalidInputException and returns no handle, in every state  *)
(* of the filesystem and with any open flags.                              *)
(***************************************************************************)
InvalidPathNeverOpens ==
    [][(last'.op = "OpenFile" /\ GetMetadataType(last'.path) = "INVALID")
          => /\ last'.res = "InvalidInput"
             /\ handle' = handle
      ]_vars

(***************************************************************************)
(* C30.  In every state the temporary block manager can reach, its free    *)
(* list is sorted by start, its ranges are non-empty, pairwise disjoint    *)
(* and not adjacent (a.end < b.start for neighbours), the free ranges and  *)
(* the ranges held by temporary files are pairwise disjoint and together   *)
(* are exactly the range the manager was constructed over, and available() *)
(* is the sum of the lengths of the free ranges.                           *)
(***************************************************************************)
Blocks(range) == range[1] .. (range[2] - 1)

FreeBlocks == UNION {Blocks(tmp.free[i]) : i \in 1..Len(tmp.free)}

ActiveFiles == {n \in TmpPaths : tmp.files[n].active}

FileBlocks(n) == tmp.files[n].start .. (tmp.files[n].end - 1)

AllocatedBlocks == UNION {FileBlocks(n) : n \in ActiveFiles}

FreeListWellFormed ==
    tmp.present =>
        /\ \A i \in 1..Len(tmp.free) : tmp.free[i][1] < tmp.free[i][2]
        /\ \A i \in 1..(Len(tmp.free) - 1) : tmp.free[i][2] < tmp.free[i + 1][1]
        /\ \A n \in ActiveFiles : tmp.files[n].start < tmp.files[n].end
        /\ \A n, m \in ActiveFiles : n # m => FileBlocks(n) \cap FileBlocks(m) = {}
        /\ FreeBlocks \cap AllocatedBlocks = {}
        /\ FreeBlocks \cup AllocatedBlocks = metadata.tmp_start .. (LastLba - 1)
        /\ SumFree(tmp.free) = Cardinality(FreeBlocks)
        /\ TmpGetAvailableSpace(tmp, LbaSize) = Cardinality(FreeBlocks) * LbaSize

FreeListWellFormedReached ==
    /\ tmp.present
    /\ Len(tmp.free) >= 2
    /\ Cardinality(ActiveFiles) = 2
    /\ last.op = "Truncate"

(***************************************************************************)
(* C31: allocate(nr_blocks) of the temporary block manager is first-fit.   *)
(* The filesystem allocates in two places: OpenFile with the create flag   *)
(* on an unknown temporary name asks for InitialBlocks blocks, and a Write *)
(* or Read past the end of a temporary file's range asks for a range of    *)
(* max(blocks needed, twice the current size).  In both, the range the     *)
(* file gets is the low nr_blocks blocks of the free range of the lowest   *)
(* start among those at least nr_blocks long, and those blocks leave the   *)
(* free list; when no free range is that long the call fails with NoSpace  *)
(* and the free list and every file's range are as before the call.        *)
(***************************************************************************)
FreeRanges == {tmp.free[i] : i \in 1..Len(tmp.free)}

Fitting(nr_blocks) == {r \in FreeRanges : r[2] - r[1] >= nr_blocks}

\* The start of the fitting free range of the lowest start.
LowestFit(nr_blocks) ==
    CHOOSE s \in {r[1] : r \in Fitting(nr_blocks)} :
        \A r \in Fitting(nr_blocks) : s <= r[1]

\* What a Write or Read of req on a file of range f asks the allocator for.
BlocksNeeded(req) ==
    (req.location \div LbaSize) + CeilDiv(req.nr_bytes, LbaSize)

Grows(f, req) == f.active /\ f.start + BlocksNeeded(req) > f.end

BlocksWanted(f, req) == Max(BlocksNeeded(req), 2 * (f.end - f.start))

AllocatedFirstFit(name, nr_blocks, old_range) ==
    IF Fitting(nr_blocks) = {}
    THEN /\ last'.res = "NoSpace"
         /\ tmp' = tmp
    ELSE /\ last'.res # "NoSpace"
         /\ tmp'.files[name].active
         /\ tmp'.files[name].start = LowestFit(nr_blocks)
         /\ tmp'.files[name].end = LowestFit(nr_blocks) + nr_blocks
         /\ FreeBlocks' = (FreeBlocks \ (LowestFit(nr_blocks) ..
                                         (LowestFit(nr_blocks) + nr_blocks - 1)))
                          \cup old_range
         /\ \A m \in TmpPaths \ {name} : tmp'.files[m] = tmp.files[m]

AllocateIsFirstFit ==
    [][\A name \in TmpFiles :
          /\ (/\ tmp.present
              /\ last'.op = "OpenFile"
              /\ last'.path = name
              /\ ~tmp.files[name].active
              /\ (tmp'.files[name].active \/ last'.res = "NoSpace"))
             => AllocatedFirstFit(name, InitialBlocks, {})
          /\ (/\ tmp.present
              /\ last'.op \in {"Write", "Read"}
              /\ last'.path = name
              /\ Grows(tmp.files[name], last'.req))
             => AllocatedFirstFit(name,
                                  BlocksWanted(tmp.files[name], last'.req),
                                  FileBlocks(name))]_vars

\* A growing Write has been given a range above a free range that was too
\* short for it.
AllocateIsFirstFitReached ==
    /\ tmp.present
    /\ last.op = "Write"
    /\ last.res = "ok"
    /\ last.path = TmpPathA
    /\ tmp.files[TmpPathA].active
    /\ tmp.files[TmpPathA].end - tmp.files[TmpPathA].start = 2
    /\ tmp.files[TmpPathB].active
    /\ tmp.files[TmpPathB].end = tmp.files[TmpPathA].start
    /\ \E i \in 1..Len(tmp.free) : tmp.free[i][2] <= tmp.files[TmpPathB].start

(***************************************************************************)
(* C32: after any sequence of Create, GetLBA (growth that moves the file   *)
(* to a new range included), Truncate, Delete and Clear, every active      *)
(* temporary file owns one non-empty range [start, end) that lies inside   *)
(* the TEMPORARY region [tmp_start, lba_count), no two active files'       *)
(* ranges share a block, and no active file's range shares a block with a  *)
(* free range.                                                             *)
(***************************************************************************)
TmpFilesOwnDisjointRanges ==
    tmp.present =>
        \A n \in ActiveFiles :
            /\ tmp.files[n].start < tmp.files[n].end
            /\ metadata.tmp_start <= tmp.files[n].start
            /\ tmp.files[n].end <= cfg.lba_count
            /\ \A m \in ActiveFiles \ {n} :
                  \/ tmp.files[n].end <= tmp.files[m].start
                  \/ tmp.files[m].end <= tmp.files[n].start
            /\ \A i \in 1..Len(tmp.free) :
                  \/ tmp.files[n].end <= tmp.free[i][1]
                  \/ tmp.free[i][2] <= tmp.files[n].start

\* Two files are live, one of them moved by a growing Write to a range
\* that does not begin the region, and blocks below it are free again.
TmpFilesOwnDisjointRangesReached ==
    /\ tmp.present
    /\ Cardinality(ActiveFiles) = 2
    /\ last.op = "Write"
    /\ last.res = "ok"
    /\ tmp.files[last.path].end - tmp.files[last.path].start >= 2
    /\ tmp.files[last.path].start > metadata.tmp_start
    /\ tmp.free # <<>>
    /\ tmp.free[1][1] < tmp.files[last.path].start

(***************************************************************************)
(* C33: removing a temporary file is idempotent.  With the temporary       *)
(* manager in place, RemoveFile on a temporary path returns without error; *)
(* if the file was known its whole range joins the free list and its entry *)
(* is dropped; if it was not known (a second RemoveFile, for one) the free *)
(* list and every file are as before; no other file changes; and when no   *)
(* temporary file is left, available() is the whole temporary region, the  *)
(* max_temp_size / lba_size blocks the manager was constructed over.       *)
(***************************************************************************)
IsTmpRemove(outcome, name) ==
    outcome.op = "RemoveFile" /\ outcome.path = name

TmpRegionBlocks == cfg.max_temp_size \div cfg.lba_size

RemoveTmpIsIdempotent ==
    [][\A name \in TmpFiles :
          (IsTmpRemove(last', name) /\ tmp.present)
          => /\ last'.res = "ok"
             /\ ~tmp'.files[name].active
             /\ FreeBlocks' = FreeBlocks \cup
                                 (IF tmp.files[name].active THEN FileBlocks(name)
                                  ELSE {})
             /\ \A m \in TmpPaths \ {name} : tmp'.files[m] = tmp.files[m]
             /\ ~tmp.files[name].active => tmp' = tmp
             /\ (IsTmpRemove(last, name) /\ last.res = "ok") => tmp' = tmp
             /\ ActiveFiles' = {}
                   => /\ SumFree(tmp'.free) = TmpRegionBlocks
                      /\ TmpGetAvailableSpace(tmp', LbaSize)
                            = TmpRegionBlocks * LbaSize
                      /\ tmp'.free = << <<metadata.tmp_start,
                                          metadata.tmp_start + TmpRegionBlocks>> >>
             /\ UNCHANGED <<metadata, db_location, wal_location, lba0, handle>>
      ]_vars

\* The last of the temporary files has been removed and the free list is
\* the one range of the whole region again.
RemoveTmpIsIdempotentReached ==
    /\ tmp.present
    /\ IsTmpRemove(last, TmpPathA)
    /\ last.res = "ok"
    /\ ActiveFiles = {}
    /\ Len(tmp.free) = 1
    /\ SumFree(tmp.free) = TmpRegionBlocks
    /\ TmpRegionBlocks > InitialBlocks

(***************************************************************************)
(* C34: under concurrent writers to temporary files, every device write    *)
(* issued for a temporary file targets only LBAs that belong to that       *)
(* file's block range at the moment the device write is executed, whatever *)
(* other threads' growth, truncate or delete of the file (and reuse of the *)
(* freed blocks) came between the writer's GetLBA and its device write.    *)
(***************************************************************************)
TmpWriteLandsInOwnRange ==
    [][\A t \in DOMAIN th :
          (th[t].pc = "resolved" /\ th'[t].pc = "written")
          => /\ tmp.files[th[t].path].active
             /\ th[t].cmd.start_lba .. (th[t].cmd.start_lba + th[t].cmd.nr_lbas - 1)
                   \subseteq FileBlocks(th[t].path)
      ]_vars

(***************************************************************************)
(* C35: a Truncate on a DATABASE or WAL handle never raises the region's   *)
(* frontier above what it found: in every interleaving of concurrent       *)
(* Truncate calls and WAL RemoveFile calls with no writer running, the     *)
(* frontier with which a Truncate returns is less than or equal to the     *)
(* frontier that Truncate read when it took the current size.              *)
(***************************************************************************)
TruncateNeverRaises ==
    [][\A t \in DOMAIN th :
          (th[t].pc = "trunc_cas" /\ th'[t].pc = "returned")
          => /\ GetMetadataType(th[t].path) = "WAL"
                   => wal_location' <= th[t].seen /\ db_location' = db_location
             /\ GetMetadataType(th[t].path) = "DATABASE"
                   => db_location' <= th[t].seen /\ wal_location' = wal_location
      ]_vars

\* A Truncate has returned after another call lowered the frontier between
\* its size check and its store, while another Truncate is still in its loop.
TruncateNeverRaisesReached ==
    \E t \in DOMAIN th :
        /\ th[t].pc = "returned"
        /\ th[t].expected_location < th[t].seen
        /\ th[t].new_location > th[t].expected_location
        /\ Frontier(GetMetadataType(th[t].path)) = th[t].new_location
        /\ \E u \in DOMAIN th \ {t} : th[u].pc \in {"trunc_load", "trunc_cas"}

(***************************************************************************)
(* C36: metadata is initialised at most once per filesystem instance.      *)
(* Whatever the interleaving of concurrent first OpenFile calls on the     *)
(* database path of a blank namespace: once one caller's OpenFile has      *)
(* returned and a write has advanced db_frontier or a temporary file has   *)
(* been created, no step of another caller's OpenFile puts db_frontier or  *)
(* wal_frontier back to the start of its region or replaces the temporary  *)
(* file manager.                                                           *)
(***************************************************************************)
IsOpenStepOf(t) == th[t].pc \in {"idle", "init"} /\ th'[t].pc # th[t].pc

InitialisedAtMostOnce ==
    [][\A t \in DOMAIN th :
          (/\ IsOpenStepOf(t)
           /\ \E u \in DOMAIN th \ {t} : th[u].pc = "opened"
           /\ metadata.present
           /\ (db_location > metadata.db_start \/ ActiveFiles # {}))
          => /\ db_location > metadata.db_start => db_location' = db_location
             /\ wal_location > metadata.wal_start => wal_location' = wal_location
             /\ tmp' = tmp
      ]_vars

(***************************************************************************)
(* C37: frontier advance is non-blocking.  Under weak fairness, with each  *)
(* thread making one call (so that only finitely many updates hit a        *)
(* frontier), every thread that has entered the compare-and-swap loop of   *)
(* UpdateMetadata or of Truncate leaves it; and a writer whose end LBA is  *)
(* below the frontier it loaded leaves the loop with no store: both        *)
(* frontiers are as they were.                                             *)
(***************************************************************************)
InLoop(t) == th[t].pc \in {"load", "cas", "trunc_load", "trunc_cas"}

OutOfLoop(t) == th[t].pc \in {"done", "returned"}

LoopsTerminate ==
    /\ \A t \in Threads : InLoop(t) ~> OutOfLoop(t)
    /\ [][\A t \in Threads :
             (/\ th[t].pc = "cas"
              /\ th'[t] # th[t]
              /\ th[t].new_location < th[t].expected_location)
             => /\ th'[t].pc = "done"
                /\ UNCHANGED <<db_location, wal_location>>]_vars

\* A writer has left the loop without a store, below the frontier another
\* writer put up.
LoopsTerminateReached ==
    \E t \in Threads :
        /\ th[t].pc = "done"
        /\ th[t].written
        /\ th[t].new_location < th[t].expected_location
        /\ Frontier(GetMetadataType(th[t].path)) > th[t].new_location
        /\ \E u \in Threads \ {t} : th[u].pc = "done" /\ th[u].written

(***************************************************************************)
(* C38: whenever initialisation succeeds, the layout in memory is          *)
(* 1 = db_start < wal_start < tmp_start <= lba_count and its boundaries    *)
(* are the ones the configuration gives without unsigned wrap-around:      *)
(* tmp_start = lba_count - 1 - max_temp_size / lba_size and                *)
(* wal_start = tmp_start - 1 - max_wal_size / lba_size as integers.  A     *)
(* configuration whose temporary and WAL sizes do not fit the namespace    *)
(* therefore never gives a Loaded state.                                   *)
(***************************************************************************)
LayoutNeverWraps ==
    metadata.present =>
        /\ metadata.db_start = 1
        /\ metadata.db_start < metadata.wal_start
        /\ metadata.wal_start < metadata.tmp_start
        /\ metadata.tmp_start <= cfg.lba_count
        /\ metadata.tmp_start
              = (cfg.lba_count - 1) - (cfg.max_temp_size \div cfg.lba_size)
        /\ metadata.wal_start
              = (metadata.tmp_start - 1) - (cfg.max_wal_size \div cfg.lba_size)
        /\ (cfg.max_temp_size \div cfg.lba_size) + (cfg.max_wal_size \div cfg.lba_size)
              < cfg.lba_count

(***************************************************************************)
(* C39: a Read on a DATABASE or WAL handle, with a location or at the      *)
(* cursor, whether it reaches the device or fails the bounds check, leaves *)
(* db_frontier, wal_frontier, the partition boundaries, the handle's       *)
(* cursor, the temporary files and the superblock at LBA 0 as they were,   *)
(* and issues no device write.                                             *)
(***************************************************************************)
IsDbWalRead(outcome) ==
    /\ outcome.op \in {"Read", "ReadAtCursor"}
    /\ outcome.path \in {DbPath, WalPath}

ReadChangesNothing ==
    [][IsDbWalRead(last')
          => /\ db_location' = db_location
             /\ wal_location' = wal_location
             /\ metadata' = metadata
             /\ handle' = handle
             /\ tmp' = tmp
             /\ lba0' = lba0
             /\ disk_sb' = disk_sb
             /\ last'.cmd.dev \in {"read", "none"}
             /\ last'.res = "OutOfRange" => last'.cmd.dev = "none"
      ]_vars

\* A read failed the bounds check on a handle whose cursor is not 0, in a
\* region whose frontier a write has advanced.
ReadChangesNothingReached ==
    /\ IsDbWalRead(last)
    /\ last.res = "OutOfRange"
    /\ handle.cursor > 0
    /\ Frontier(GetMetadataType(last.path)) > RegionStart(GetMetadataType(last.path))
    /\ disk_sb.present

====
